---- MODULE Spec2Model ----
(***************************************************************************)
(* Model of the wireless-sensor-network simulation engine                  *)
(* (src/src/service/simulation-engine.ts, second class body, lines         *)
(* 406-940) together with the two clustering strategies of                 *)
(* src/src/service/clustering/leach-clustering.ts.                         *)
(*                                                                         *)
(* Number representation.  Energy is counted in units of 0.001, so the     *)
(* literal 0.01 of the idle drain is 10 and the literal 0.001 of the sleep *)
(* drain is 1.  config.distanceFactor is counted in units of 0.000001, so  *)
(* distanceFactor * dist^2 is (distanceFactor * dist^2) \div 1000 energy   *)
(* units; sensor coordinates are multiples of 10, which keeps that         *)
(* quotient exact.  Centroids are rationals (xn/d, yn/d).  Distances are   *)
(* compared through their squares (Math.sqrt is monotone).                 *)
(***************************************************************************)
EXTENDS Integers, Sequences, FiniteSets, TLC

----------------------------------------------------------------------------
(* Bounds of the model *)

MaxSensors == 4

MaxRounds == 6

MaxClusters == 2

MaxInterval == 2

MaxSimulations == 2

MaxInvalidSensors == 2

\* sensors of the layouts that estimates are computed on
EstimateSensors == 8

\* sensors with a cached reading when an estimate is computed
MaxCached == 2

----------------------------------------------------------------------------
(* Program constants *)

IdleDrain == 10

SleepDrain == 1

maxIterations == 100

convergenceThreshold == 1

EnergyRef == 50000

MaxEnergyFactor == 2

ProbTieDen == 1000

\* DEFAULT_CONFIG.numClusters
DefaultClusters == 5

\* WSNSimulationEngine.EST_K: the number of nearest sensors an estimate
\* looks at
EST_K == 6

\* WSNSimulationEngine.EPS = 1e-4, in units of 1e-4 of a coordinate step
EPS == 1

\* the number of EPS units in one coordinate step
DistanceUnit == 10000

\* the numerator of a weight 1 / (distance + EPS), in weight units
WeightScale == 100000000

----------------------------------------------------------------------------
(* Generic helpers *)

Min2(a, b) == IF a < b THEN a ELSE b

Max2(a, b) == IF a > b THEN a ELSE b

Sq(a) == a * a

RECURSIVE SortedIds(_)
SortedIds(S) ==
  IF S = {} THEN <<>>
  ELSE LET m == CHOOSE x \in S : \A y \in S : x <= y
       IN <<m>> \o SortedIds(S \ {m})

Range(s) == {s[i] : i \in 1..Len(s)}

\* the array with every element evaluated
Array(s) == SubSeq(s, 1, Len(s))

CeilDiv(a, b) == (a + b - 1) \div b

CeilSqrt(k) == CHOOSE c \in 0..k : c * c >= k /\ \A e \in 0..k : e * e >= k => c <= e

----------------------------------------------------------------------------
(* Configuration and sensor layouts *)

\* the configurations that satisfy the caller contract
ValidConfigs ==
  [ width : {100}, height : {100},
    numSensors : 1..MaxSensors,
    initialEnergy : {0, 100000},
    numClusters : 0..MaxClusters \cup {DefaultClusters},
    clusteringInterval : 1..MaxInterval,
    energyTxElec : {20}, energyRxElec : {10},
    distanceFactor : {4000}, energyToSatellite : {40000},
    minSalinity : {30000}, maxSalinity : {38000},
    minPressure : {1000000}, maxPressure : {3000000},
    minTemperature : {2000}, maxTemperature : {25000},
    minPH : {7500}, maxPH : {8500},
    informationThreshold : {1}, historyWindow : {10} ]

\* configurations whose initial energy is below energyToSatellite, so that
\* a head dies in the round it is elected: full layouts, one cluster
LowEnergyConfigs ==
  { [c EXCEPT !.initialEnergy = 30000] :
      c \in {d \in ValidConfigs : /\ d.numSensors = MaxSensors
                                  /\ d.initialEnergy > 0
                                  /\ d.numClusters = 1} }

\* configurations whose initial energy leaves a head of round 0 with exactly
\* one idle drain of energy: full layouts, two clusters, reclustering every
\* round
MarginalEnergyConfigs ==
  { [c EXCEPT !.initialEnergy = 40040] :
      c \in {d \in ValidConfigs : /\ d.numSensors = MaxSensors
                                  /\ d.initialEnergy > 0
                                  /\ d.numClusters = 2
                                  /\ d.clusteringInterval = 1} }

\* configurations with a negative field width, on small layouts
InvalidConfigs ==
  { [c EXCEPT !.width = -100] :
      c \in {d \in ValidConfigs : d.numSensors <= MaxInvalidSensors} }

\* the SimulationConfig values the constructor and updateConfig are given
Configs ==
  ValidConfigs \cup LowEnergyConfigs \cup MarginalEnergyConfigs \cup InvalidConfigs

\* the Partial<SimulationConfig> arguments of updateConfig
ConfigUpdates == { [width |-> w] : w \in {100, -100} }

\* { ...this.config, ...newConfig }
mergeConfig(cfg, newConfig) ==
  [ f \in DOMAIN cfg |-> IF f \in DOMAIN newConfig THEN newConfig[f] ELSE cfg[f] ]

PositionPool ==
  << [x |-> 10, y |-> 10], [x |-> 90, y |-> 20], [x |-> 20, y |-> 80],
     [x |-> 80, y |-> 90], [x |-> 50, y |-> 50], [x |-> 40, y |-> 10],
     [x |-> 70, y |-> 60] >>

LayoutIds == 0..1

Ids(n) == 0..(n - 1)

\* generateSensors: Math.random() * width and Math.random() * height, the
\* random factors drawn (in hundredths) from the position pool
generateSensors(cfg, l) ==
  [ i \in Ids(cfg.numSensors) |->
      [ id |-> i,
        x |-> (PositionPool[((i * (l + 1) + l) % Len(PositionPool)) + 1].x
                 * cfg.width) \div 100,
        y |-> (PositionPool[((i * (l + 1) + l) % Len(PositionPool)) + 1].y
                 * cfg.height) \div 100,
        energy |-> cfg.initialEnergy,
        isAsleep |-> FALSE ] ]

\* squared Euclidean distance of two sensors
distance2(a, b) == Sq(a.x - b.x) + Sq(a.y - b.y)

\* variant of getAliveSensors without the energy filter
getAliveSensorsAll(S) == SortedIds(DOMAIN S)

\* algorithmSensors.filter(s => s.energy > 0), in array order
getAliveSensors(S) == SortedIds({i \in DOMAIN S : S[i].energy > 0})

----------------------------------------------------------------------------
(* Environment field generator: EnvironmentModule                           *)
(* The configured ranges and the values inside the module are counted in   *)
(* thousandths; the readings getSensorData returns are counted in           *)
(* hundredths, the resolution toFixed(2) leaves.  Angles are counted in     *)
(* thousandths of a turn and the sinusoids are evaluated by the             *)
(* piecewise-linear table sinT, in thousandths.                             *)

sinT(p) ==
  LET q == p % 1000
  IN IF q <= 250 THEN 4 * q
     ELSE IF q <= 750 THEN 4 * (500 - q)
     ELSE 4 * (q - 1000)

cosT(p) == sinT(p + 250)

\* an angle given in thousandths of a radian, in thousandths of a turn
turnOf(mrad) == ((mrad % 6283) * 1000) \div 6283

clamp(value, lo, hi) == Max2(lo, Min2(hi, value))

\* lerp(a, b, t) with t in thousandths
lerp(a, b, t) == a + (((b - a) * Max2(0, Min2(1000, t))) \div 1000)

generateBaseEnvironmentPoint(x, y, cfg) ==
  LET normX == (x * 1000) \div cfg.width
      depth == (y * 1000) \div cfg.height
  IN [ salinity |->
         clamp(lerp(cfg.minSalinity, cfg.maxSalinity,
                    300 + ((400 * sinT(normX)) \div 1000) + ((300 * depth) \div 1000)),
               cfg.minSalinity, cfg.maxSalinity),
       pressure |->
         clamp(lerp(cfg.minPressure, cfg.maxPressure,
                    200 + ((800 * depth) \div 1000)
                        + ((100 * cosT((normX * 3) \div 2)) \div 1000)),
               cfg.minPressure, cfg.maxPressure),
       temperature |->
         clamp(lerp(cfg.minTemperature, cfg.maxTemperature,
                    (800 - ((600 * depth) \div 1000))
                        + ((200 * sinT(normX * 2)) \div 1000)),
               cfg.minTemperature, cfg.maxTemperature),
       ph |->
         clamp(lerp(cfg.minPH, cfg.maxPH,
                    (500 + ((300 * cosT(normX)) \div 1000)) - ((200 * depth) \div 1000)),
               cfg.minPH, cfg.maxPH) ]

\* nearest-cell lookup in the 20 x 20 grid built by initializeEnvironment
getInterpolatedEnvironmentPoint(x, y, cfg) ==
  LET gridX == (x * 20) \div cfg.width
      gridY == (y * 20) \div cfg.height
  IN generateBaseEnvironmentPoint((gridX * cfg.width) \div 20,
                                  (gridY * cfg.height) \div 20, cfg)

getTemporalVariation(x, y, round, cfg) ==
  LET normX == (x * 1000) \div cfg.width
      normY == (y * 1000) \div cfg.height
      tidalCycle == sinT(10 * round) \div 2
      seasonalCycle == (cosT(round \div 2) * 3) \div 10
      salinityRange == ((cfg.maxSalinity - cfg.minSalinity) * 5) \div 100
      pressureRange == ((cfg.maxPressure - cfg.minPressure) * 3) \div 100
      temperatureRange == ((cfg.maxTemperature - cfg.minTemperature) * 4) \div 100
      phRange == ((cfg.maxPH - cfg.minPH) * 2) \div 100
  IN [ salinity |-> (salinityRange * (tidalCycle + ((seasonalCycle * normY) \div 1000))) \div 1000,
       pressure |-> (pressureRange * (((tidalCycle * 3) \div 2) + (seasonalCycle \div 2))) \div 1000,
       temperature |-> (temperatureRange * (seasonalCycle + ((tidalCycle * 3) \div 10))) \div 1000,
       ph |-> (phRange * (((seasonalCycle * 7) \div 10) + ((tidalCycle * normX) \div 1000))) \div 1000 ]

\* NoiseGenerator.getNoise, in thousandths; frequency in thousandths,
\* amplitude in hundredths
generatorNoise(frequency, amplitude, seed, x, y, t) ==
  LET a == sinT(turnOf(x * frequency + seed * 1000))
      b == cosT(turnOf(y * frequency + seed * 1500))
      c == sinT(turnOf(((t * frequency) \div 10) + seed * 2000))
  IN (((((a * b) \div 1000) * c) \div 1000) * amplitude) \div 100

getNoise(x, y, round, cfg) ==
  LET noise == generatorNoise(10, 100, 1234, x, y, round)
             + generatorNoise(50, 50, 5678, x, y, round)
             + generatorNoise(100, 25, 9012, x, y, round)
      salinityRange == ((cfg.maxSalinity - cfg.minSalinity) * 2) \div 100
      pressureRange == (cfg.maxPressure - cfg.minPressure) \div 100
      temperatureRange == ((cfg.maxTemperature - cfg.minTemperature) * 2) \div 100
      phRange == (cfg.maxPH - cfg.minPH) \div 100
  IN [ salinity |-> (((noise * 5) \div 10) * salinityRange) \div 1000,
       pressure |-> (((noise * 3) \div 10) * pressureRange) \div 1000,
       temperature |-> (((noise * 4) \div 10) * temperatureRange) \div 1000,
       ph |-> (((noise * 2) \div 10) * phRange) \div 1000 ]

\* parseFloat(v.toFixed(2)): a value in thousandths rounded to the nearest
\* hundredth, in hundredths
toFixed2(v) == (v + 5) \div 10

\* getSensorData: base point, temporal variation and noise are added and
\* clamped to the configured range, and the clamped value is rounded to two
\* decimals
getSensorData(x, y, round, cfg) ==
  LET basePoint == getInterpolatedEnvironmentPoint(x, y, cfg)
      timeVariation == getTemporalVariation(x, y, round, cfg)
      noise == getNoise(x, y, round, cfg)
      salinity == clamp(basePoint.salinity + timeVariation.salinity + noise.salinity,
                        cfg.minSalinity, cfg.maxSalinity)
      pressure == clamp(basePoint.pressure + timeVariation.pressure + noise.pressure,
                        cfg.minPressure, cfg.maxPressure)
      temperature == clamp(basePoint.temperature + timeVariation.temperature
                             + noise.temperature,
                           cfg.minTemperature, cfg.maxTemperature)
      ph == clamp(basePoint.ph + timeVariation.ph + noise.ph, cfg.minPH, cfg.maxPH)
  IN [ salinity |-> toFixed2(salinity),
       pressure |-> toFixed2(pressure),
       temperature |-> toFixed2(temperature),
       ph |-> toFixed2(ph) ]

\* algorithmSensors.map(sensor => ({id, ...getSensorData(x, y, round)}))
readSensors(S, round, cfg) ==
  [ i \in DOMAIN S |-> getSensorData(S[i].x, S[i].y, round, cfg) ]

----------------------------------------------------------------------------
(* Centroid-based strategy: KMeansClusteringAlgorithm *)

\* a working-topology cluster: members and sleepingMembers are id lists;
\* hasSleeping = FALSE stands for sleepingMembers being undefined
MkCluster(i, h, ms) ==
  [id |-> i, headId |-> h, members |-> ms,
   hasSleeping |-> FALSE, sleepingMembers |-> <<>>]

initializeCentroids(k, cfg) ==
  LET gridCols == CeilSqrt(k)
      gridRows == CeilDiv(k, gridCols)
  IN Array([ n \in 1..k |->
         LET row == ((n - 1) \div gridCols) + 1
             col == ((n - 1) % gridCols) + 1
         IN [ xn |-> col * cfg.width * (gridRows + 1),
              yn |-> row * cfg.height * (gridCols + 1),
              d  |-> (gridCols + 1) * (gridRows + 1) ] ])

\* numerator of the squared distance sensor-centroid over the denominator c.d^2
centroidDist2Num(s, c) == Sq(s.x * c.d - c.xn) + Sq(s.y * c.d - c.yn)

\* euclideanDistance(s, c1) < euclideanDistance(s, c2)
closerTo(s, c1, c2) ==
  centroidDist2Num(s, c1) * Sq(c2.d) < centroidDist2Num(s, c2) * Sq(c1.d)

\* index of the nearest centroid, the first one among equals (strict <)
nearestCentroid(s, centroids) ==
  CHOOSE i \in 1..Len(centroids) :
    /\ \A j \in 1..Len(centroids) : ~ closerTo(s, centroids[j], centroids[i])
    /\ \A j \in 1..(i - 1) : closerTo(s, centroids[i], centroids[j])

assignSensorsToCentroids(S, alive, centroids) ==
  Array([ n \in 1..Len(alive) |-> nearestCentroid(S[alive[n]], centroids) ])

RECURSIVE SumSeq(_)
SumSeq(s) == IF s = <<>> THEN 0 ELSE Head(s) + SumSeq(Tail(s))

updateCentroids(S, alive, assignments, k) ==
  Array([ i \in 1..k |->
      LET clusterSensors ==
            SelectSeq([n \in 1..Len(alive) |-> IF assignments[n] = i THEN alive[n] ELSE -1],
                      LAMBDA e : e >= 0)
      IN IF clusterSensors = <<>>
         THEN [xn |-> 0, yn |-> 0, d |-> 1]
         ELSE [ xn |-> SumSeq([n \in 1..Len(clusterSensors) |-> S[clusterSensors[n]].x]),
                yn |-> SumSeq([n \in 1..Len(clusterSensors) |-> S[clusterSensors[n]].y]),
                d  |-> Len(clusterSensors) ] ])

\* variant of hasConverged whose threshold no movement can meet
hasConvergedNever(oldCentroids, newCentroids) ==
  \A i \in 1..Len(oldCentroids) :
    LET o == oldCentroids[i]
        n == newCentroids[i]
    IN Sq(o.xn * n.d - n.xn * o.d) + Sq(o.yn * n.d - n.yn * o.d) < 0

hasConverged(oldCentroids, newCentroids) ==
  \A i \in 1..Len(oldCentroids) :
    LET o == oldCentroids[i]
        n == newCentroids[i]
    IN Sq(o.xn * n.d - n.xn * o.d) + Sq(o.yn * n.d - n.yn * o.d)
         <= Sq(convergenceThreshold) * Sq(o.d * n.d)

\* the Lloyd loop of cluster(): returns the final assignments, centroids,
\* iteration count and convergence flag
RECURSIVE lloydLoop(_, _, _, _, _, _, _)
lloydLoop(S, alive, k, centroids, assignments, converged, iteration) ==
  IF ~ converged /\ iteration < maxIterations
  THEN LET newAssignments == assignSensorsToCentroids(S, alive, centroids)
           newCentroids == updateCentroids(S, alive, newAssignments, k)
       IN lloydLoop(S, alive, k, newCentroids, newAssignments,
                    hasConverged(centroids, newCentroids), iteration + 1)
  ELSE [assignments |-> assignments, centroids |-> centroids,
        iteration |-> iteration, converged |-> converged]

createClusters(S, alive, assignments, centroids, k) ==
  LET membersOf(i) ==
        SelectSeq([n \in 1..Len(alive) |-> IF assignments[n] = i THEN alive[n] ELSE -1],
                  LAMBDA e : e >= 0)
      nearer(a, b, c) ==
        centroidDist2Num(S[a], c) < centroidDist2Num(S[b], c)
      headOf(i) ==
        LET ms == membersOf(i)
        IN ms[CHOOSE n \in 1..Len(ms) :
                /\ \A m \in 1..Len(ms) : ~ nearer(ms[m], ms[n], centroids[i])
                /\ \A m \in 1..(n - 1) : nearer(ms[n], ms[m], centroids[i])]
      all == [ i \in 1..k |-> IF membersOf(i) = <<>>
                              THEN MkCluster(-1, -1, <<>>)
                              ELSE MkCluster(i - 1, headOf(i), membersOf(i)) ]
  IN SelectSeq(all, LAMBDA c : c.id >= 0)

\* the loop of cluster() from its initial state
lloydRun(S, aliveSensors, k, cfg) ==
  lloydLoop(S, aliveSensors, k, initializeCentroids(k, cfg),
            [n \in 1..Len(aliveSensors) |-> 0], FALSE, 0)

\* variant of effectiveK that takes the larger of the two counts
effectiveKLarger(cfg, aliveCount) == Max2(cfg.numClusters, aliveCount)

\* const k = Math.min(config.numClusters, aliveSensors.length)
effectiveK(cfg, aliveCount) == Min2(cfg.numClusters, aliveCount)

\* KMeansClusteringAlgorithm.cluster; sensorList is the sensors argument,
\* a list of ids whose objects are read in S
kmeansCluster(S, sensorList, cfg) ==
  LET aliveSensors == SelectSeq(sensorList, LAMBDA i : S[i].energy > 0)
      k == effectiveK(cfg, Len(aliveSensors))
  IN IF Len(aliveSensors) = 0 THEN <<>>
     ELSE IF k = 0 THEN <<>>
     ELSE IF k = 1 \/ Len(aliveSensors) = 1
          THEN << MkCluster(0, aliveSensors[1], aliveSensors) >>
     ELSE LET r == lloydRun(S, aliveSensors, k, cfg)
          IN createClusters(S, aliveSensors, r.assignments, r.centroids, k)

----------------------------------------------------------------------------
(* Rotating-head strategy: LeachClusteringAlgorithm *)

\* the nodes map is a function from the tracked sensor ids to LeachNode
\* records; roundsPerCycle = 0 stands for Infinity (Math.ceil(1 / 0))
FreshNode == [wasClusterHead |-> FALSE, lastClusterHeadRound |-> -1]

updateNodeTracking(nodes, alive) ==
  [ i \in Range(alive) |-> IF i \in DOMAIN nodes THEN nodes[i] ELSE FreshNode ]

\* updateClusterHeadProbability: roundsPerCycle = ceil(1 / min(1, desired/total))
roundsPerCycleOf(desiredClusterHeads, totalSensors) ==
  IF desiredClusterHeads = 0 THEN 0
  ELSE CeilDiv(totalSensors, desiredClusterHeads)

cycleRoundOf(currentRound, rpc) ==
  IF rpc = 0 THEN currentRound ELSE currentRound % rpc

\* variant of servedInCycle without the cycle window
servedInCycleNoWindow(node, currentRound, rpc) ==
  /\ node.wasClusterHead
  /\ node.lastClusterHeadRound >= currentRound

\* first test of calculateClusterHeadProbability: served within the cycle
servedInCycle(node, currentRound, rpc) ==
  /\ node.wasClusterHead
  /\ (rpc = 0 \/ node.lastClusterHeadRound >= currentRound - rpc)

\* denominator shared by all eligibility values of one cluster() call
probDen(desired, total, currentRound, rpc) ==
  IF desired = 0 THEN total * EnergyRef
  ELSE (total - desired * cycleRoundOf(currentRound, rpc)) * EnergyRef

\* calculateClusterHeadProbability, as a numerator over probDen
calculateClusterHeadProbability(node, energy, currentRound, desired, total, rpc) ==
  IF servedInCycle(node, currentRound, rpc) THEN 0
  ELSE Min2(probDen(desired, total, currentRound, rpc),
            desired * Min2(MaxEnergyFactor * EnergyRef, energy))

\* the node after calculateClusterHeadProbability (reset at cycleRound 0)
nodeAfterProbability(node, currentRound, rpc) ==
  IF servedInCycle(node, currentRound, rpc) THEN node
  ELSE IF cycleRoundOf(currentRound, rpc) = 0 THEN FreshNode
  ELSE node

\* the comparator of candidates.sort returns a negative number
candidateBefore(a, b, den) ==
  IF (IF a.probability >= b.probability
      THEN a.probability - b.probability
      ELSE b.probability - a.probability) * ProbTieDen < den
  THEN a.energy > b.energy
  ELSE a.probability > b.probability

insertCandidate(sorted, c, den) ==
  LET pos == IF \E i \in 1..Len(sorted) : candidateBefore(c, sorted[i], den)
             THEN CHOOSE i \in 1..Len(sorted) :
                    /\ candidateBefore(c, sorted[i], den)
                    /\ \A j \in 1..(i - 1) : ~ candidateBefore(c, sorted[j], den)
             ELSE Len(sorted) + 1
  IN SubSeq(sorted, 1, pos - 1) \o <<c>> \o SubSeq(sorted, pos, Len(sorted))

\* Array.prototype.sort is stable
RECURSIVE sortCandidates(_, _, _)
sortCandidates(sorted, rest, den) ==
  IF rest = <<>> THEN sorted
  ELSE sortCandidates(insertCandidate(sorted, Head(rest), den), Tail(rest), den)

\* reduce((max, s) => s.energy > max.energy ? s : max): the first maximum
topEnergy(S, ids) ==
  ids[CHOOSE n \in 1..Len(ids) :
        /\ \A m \in 1..Len(ids) : S[ids[m]].energy <= S[ids[n]].energy
        /\ \A m \in 1..(n - 1) : S[ids[m]].energy < S[ids[n]].energy]

\* variant of the fallback loop that forces no sensor into headship
forceHeadsNone(S, alive, heads, desiredCount) == heads

\* the fallback loop of selectClusterHeads
RECURSIVE forceHeads(_, _, _, _)
forceHeads(S, alive, heads, desiredCount) ==
  IF Len(heads) < desiredCount /\ Len(heads) < Len(alive)
  THEN LET remaining == SelectSeq(alive, LAMBDA i : i \notin Range(heads))
       IN IF remaining = <<>> THEN heads
          ELSE forceHeads(S, alive, Append(heads, topEnergy(S, remaining)), desiredCount)
  ELSE heads

selectClusterHeads(S, alive, nodes, currentRound, desiredCount, rpc) ==
  LET total == Len(alive)
      den == probDen(desiredCount, total, currentRound, rpc)
      candidates ==
        Array([ n \in 1..Len(alive) |->
            [ sensor |-> alive[n],
              energy |-> S[alive[n]].energy,
              probability |->
                calculateClusterHeadProbability(nodes[alive[n]], S[alive[n]].energy,
                                                currentRound, desiredCount, total, rpc) ] ])
      sorted == sortCandidates(<<>>, candidates, den)
      numToSelect == Min2(desiredCount, Len(sorted))
      top == SubSeq(sorted, 1, numToSelect)
      ranked == SelectSeq(top, LAMBDA c : c.probability > 0)
      rankedHeads == Array([ n \in 1..Len(ranked) |-> ranked[n].sensor ])
      heads == forceHeads(S, alive, rankedHeads, desiredCount)
      marked == [wasClusterHead |-> TRUE, lastClusterHeadRound |-> currentRound]
  IN [ clusterHeads |-> heads,
       ranked |-> Range(rankedHeads),
       forced |-> Range(heads) \ Range(rankedHeads),
       nodes |-> [ i \in DOMAIN nodes |->
                     IF i \in Range(heads) THEN marked
                     ELSE nodeAfterProbability(nodes[i], currentRound, rpc) ] ]

\* index of the nearest head, the first one among equals (strict <)
nearestHead(S, s, heads) ==
  CHOOSE i \in 1..Len(heads) :
    /\ \A j \in 1..Len(heads) : distance2(S[s], S[heads[j]]) >= distance2(S[s], S[heads[i]])
    /\ \A j \in 1..(i - 1) : distance2(S[s], S[heads[j]]) > distance2(S[s], S[heads[i]])

formClustersNoHead(S, alive, clusterHeads) ==
  LET nonHeadSensors == SelectSeq(alive, LAMBDA i : i \notin Range(clusterHeads))
  IN Array([ i \in 1..Len(clusterHeads) |->
         MkCluster(i - 1, clusterHeads[i],
                   SelectSeq(nonHeadSensors,
                             LAMBDA s : nearestHead(S, s, clusterHeads) = i)) ])

formClusters(S, alive, clusterHeads) ==
  LET nonHeadSensors == SelectSeq(alive, LAMBDA i : i \notin Range(clusterHeads))
  IN Array([ i \in 1..Len(clusterHeads) |->
         MkCluster(i - 1, clusterHeads[i],
                   <<clusterHeads[i]>> \o
                   SelectSeq(nonHeadSensors,
                             LAMBDA s : nearestHead(S, s, clusterHeads) = i)) ])

\* LeachClusteringAlgorithm.cluster: the clusters, the nodes map and
\* roundsPerCycle it leaves behind, and which heads were ranked or forced
leachCluster(S, cfg, round, nodes, rpc) ==
  LET aliveSensors == getAliveSensors(S)
      tracked == updateNodeTracking(nodes, aliveSensors)
      desiredClusterHeads == Min2(cfg.numClusters, Len(aliveSensors))
      newRpc == roundsPerCycleOf(desiredClusterHeads, Len(aliveSensors))
      sel == selectClusterHeads(S, aliveSensors, tracked, round,
                                desiredClusterHeads, newRpc)
      clusterHeads == IF sel.clusterHeads = <<>>
                      THEN << topEnergy(S, aliveSensors) >>
                      ELSE sel.clusterHeads
  IN IF Len(aliveSensors) = 0
     THEN [clusters |-> <<>>, nodes |-> nodes, roundsPerCycle |-> rpc,
           ranked |-> {}, forced |-> {}, emergency |-> {}]
     ELSE [clusters |-> formClusters(S, aliveSensors, clusterHeads),
           nodes |-> sel.nodes, roundsPerCycle |-> newRpc,
           ranked |-> sel.ranked, forced |-> sel.forced,
           emergency |-> IF sel.clusterHeads = <<>>
                         THEN {topEnergy(S, aliveSensors)} ELSE {}]

----------------------------------------------------------------------------
(* Energy model: WSNSimulationEngine.calculateEnergyConsumption *)

\* energyTxElec + distanceFactor * dist^2
txEnergy(member, head, cfg) ==
  cfg.energyTxElec + ((cfg.distanceFactor * distance2(member, head)) \div 1000)

\* members.forEach: active non-head members pay the transmit cost
RECURSIVE chargeMembers(_, _, _, _)
chargeMembers(S, members, headId, cfg) ==
  IF members = <<>> THEN S
  ELSE LET m == Head(members)
           S1 == IF S[m].energy <= 0 \/ S[m].isAsleep THEN S
                 ELSE [S EXCEPT ![m].energy =
                         Max2(0, @ - txEnergy(S[m], S[headId], cfg))]
       IN chargeMembers(S1, Tail(members), headId, cfg)

\* cluster.sleepingMembers.forEach: the sleep drain
RECURSIVE chargeSleeping(_, _)
chargeSleeping(S, sleeping) ==
  IF sleeping = <<>> THEN S
  ELSE LET m == Head(sleeping)
           S1 == IF S[m].energy <= 0 THEN S
                 ELSE [S EXCEPT ![m].energy = Max2(0, @ - SleepDrain)]
       IN chargeSleeping(S1, Tail(sleeping))

\* sensors.forEach inside the cluster callback: the idle/base drain
RECURSIVE chargeIdleOf(_, _)
chargeIdleOf(S, ids) ==
  IF ids = <<>> THEN S
  ELSE LET i == Head(ids)
           S1 == IF S[i].energy > 0 /\ ~ S[i].isAsleep
                 THEN [S EXCEPT ![i].energy = Max2(0, @ - IdleDrain)]
                 ELSE S
       IN chargeIdleOf(S1, Tail(ids))

chargeIdle(S) == chargeIdleOf(S, SortedIds(DOMAIN S))

\* variant of clampHead that leaves the head's energy as it is
clampHeadSkipped(S, headId) == S

\* the final clamp of the head
clampHead(S, headId) ==
  IF S[headId].energy < 0 THEN [S EXCEPT ![headId].energy = 0] ELSE S

\* the callback of clusters.forEach for one cluster, up to the idle drain
chargeClusterCosts(S, cluster, algorithm, cfg) ==
  LET members == SelectSeq(cluster.members, LAMBDA m : m # cluster.headId)
      rxEnergy == Len(members) * cfg.energyRxElec
      S1 == [S EXCEPT ![cluster.headId].energy = (@ - rxEnergy) - cfg.energyToSatellite]
      S2 == chargeMembers(S1, members, cluster.headId, cfg)
  IN IF algorithm = "info-kmeans" /\ cluster.hasSleeping
     THEN chargeSleeping(S2, cluster.sleepingMembers)
     ELSE S2

\* the whole callback of clusters.forEach for one cluster
chargeCluster(S, cluster, algorithm, cfg) ==
  clampHead(chargeIdle(chargeClusterCosts(S, cluster, algorithm, cfg)), cluster.headId)

\* the sensors the idle drain of this cluster's callback is charged to
idleCharged(S, cluster, algorithm, cfg) ==
  LET S3 == chargeClusterCosts(S, cluster, algorithm, cfg)
  IN {i \in DOMAIN S3 : S3[i].energy > 0 /\ ~ S3[i].isAsleep}

\* one more idle charge for each of the given sensors
RECURSIVE countIdle(_, _)
countIdle(idle, ids) ==
  IF ids = <<>> THEN idle
  ELSE countIdle([idle EXCEPT ![Head(ids)] = @ + 1], Tail(ids))

\* calculateEnergyConsumption: the sensors after the round's costs, and how
\* often the idle drain was charged to each sensor
RECURSIVE calculateEnergyConsumption(_, _, _, _, _)
calculateEnergyConsumption(clusters, S, algorithm, cfg, idle) ==
  IF clusters = <<>> THEN [sensors |-> S, idle |-> idle]
  ELSE LET c == Head(clusters)
           charged == idleCharged(S, c, algorithm, cfg)
       IN IF S[c.headId].energy <= 0
          THEN calculateEnergyConsumption(Tail(clusters), S, algorithm, cfg, idle)
          ELSE calculateEnergyConsumption(
                 Tail(clusters), chargeCluster(S, c, algorithm, cfg), algorithm, cfg,
                 countIdle(idle, SortedIds(charged)))

----------------------------------------------------------------------------
(* Entropy-gated strategy: InfoKMeansClusteringAlgorithm                    *)
(* The reading windows are represented by their lengths, and the entropy    *)
(* score of a sensor by a level in ScoreLevels that is an input of the run; *)
(* informationThreshold is a level too.                                     *)

ScoreLevels == 0..1

\* clearHistory
clearHistory(cfg) == [ i \in Ids(cfg.numSensors) |-> 0 ]

\* cluster() appends this round's reading to the window of each alive sensor
recordSamples(samples, alive, cfg) ==
  [ i \in DOMAIN samples |->
      IF i \in Range(alive) THEN Min2(cfg.historyWindow, samples[i] + 1)
      ELSE samples[i] ]

\* at least 3 samples for at least 80% of the tracked sensors
enoughHistory(samples) ==
  LET tracked == {i \in DOMAIN samples : samples[i] > 0}
  IN /\ tracked # {}
     /\ 5 * Cardinality({i \in tracked : samples[i] >= 3}) >= 4 * Cardinality(tracked)

\* variant of minActiveNodes with a floor of one active sensor
minActiveNodesOne(aliveCount) == Max2(1, CeilDiv(3 * aliveCount, 10))

\* the least active count the guardrail accepts: max(3, 30% of alive count)
minActiveNodes(aliveCount) == Max2(3, CeilDiv(3 * aliveCount, 10))

\* sleeping candidates, highest score first (ties in array order)
RECURSIVE byScore(_, _)
byScore(ids, score) ==
  IF ids = <<>> THEN <<>>
  ELSE LET n == CHOOSE n \in 1..Len(ids) :
                  /\ \A m \in 1..Len(ids) : score[ids[m]] <= score[ids[n]]
                  /\ \A m \in 1..(n - 1) : score[ids[m]] < score[ids[n]]
       IN <<ids[n]>> \o byScore(SubSeq(ids, 1, n - 1) \o SubSeq(ids, n + 1, Len(ids)), score)

\* the sensors asleep after the threshold test and the wake guardrail
sleepSchedule(alive, samples, score, cfg) ==
  IF ~ enoughHistory(samples) THEN {}
  ELSE LET passing == {i \in Range(alive) : score[i] >= cfg.informationThreshold}
           below == byScore(SelectSeq(alive, LAMBDA i : i \notin passing), score)
           missing == minActiveNodes(Len(alive)) - Cardinality(passing)
           woken == IF missing <= 0 THEN {}
                    ELSE Range(SubSeq(below, 1, Min2(missing, Len(below))))
       IN Range(below) \ woken

\* the isAsleep flag of every alive sensor is set from the schedule
RECURSIVE markAsleep(_, _, _)
markAsleep(S, ids, asleep) ==
  IF ids = <<>> THEN S
  ELSE markAsleep([S EXCEPT ![Head(ids)].isAsleep = (Head(ids) \in asleep)],
                  Tail(ids), asleep)

\* InfoKMeansClusteringAlgorithm.cluster: the active sensors are clustered
\* by the centroid-based strategy, each sleeping sensor joins the cluster
\* whose head is nearest as a sleeping member
infoKmeansCluster(S, cfg, samples, score) ==
  LET alive == getAliveSensors(S)
      newSamples == recordSamples(samples, alive, cfg)
      asleep == sleepSchedule(alive, newSamples, score, cfg)
      S1 == markAsleep(S, alive, asleep)
      active == SelectSeq(alive, LAMBDA i : i \notin asleep)
      base == kmeansCluster(S1, active, cfg)
      heads == Array([ n \in 1..Len(base) |-> base[n].headId ])
      sleepers == SelectSeq(alive, LAMBDA i : i \in asleep)
  IN [ sensors |-> S1,
       samples |-> newSamples,
       clusters |->
         Array([ n \in 1..Len(base) |->
             [ base[n] EXCEPT
                 !.hasSleeping = TRUE,
                 !.sleepingMembers =
                    SelectSeq(sleepers, LAMBDA i : nearestHead(S1, i, heads) = n) ] ]) ]

----------------------------------------------------------------------------
(* Round frames *)

memberSnapshot(S, m) == [id |-> m, energy |-> S[m].energy, isAsleep |-> S[m].isAsleep]

\* the clusters of the HistoryItem pushed at the end of a round
frameClusters(clusters, S) ==
  [ n \in 1..Len(clusters) |->
      [ id |-> clusters[n].id,
        headId |-> clusters[n].headId,
        members |-> [ k \in 1..Len(clusters[n].members) |->
                        memberSnapshot(S, clusters[n].members[k]) ],
        hasSleeping |-> clusters[n].hasSleeping,
        sleepingMembers |->
          [ k \in 1..Len(clusters[n].sleepingMembers) |->
              [ memberSnapshot(S, clusters[n].sleepingMembers[k])
                  EXCEPT !.isAsleep = TRUE ] ] ] ]

\* variant of carryForward that keeps the members that have died
carryForwardDeadMembers(prev, S) ==
  LET ids(ms) == Array([ k \in 1..Len(ms) |-> ms[k].id ])
      mapped == [ n \in 1..Len(prev.clusters) |->
                    [ id |-> prev.clusters[n].id,
                      headId |-> prev.clusters[n].headId,
                      members |-> ids(prev.clusters[n].members),
                      hasSleeping |-> prev.clusters[n].hasSleeping,
                      sleepingMembers |-> ids(prev.clusters[n].sleepingMembers) ] ]
  IN SelectSeq(mapped, LAMBDA c : S[c.headId].energy > 0)

\* variant of carryForward that keeps the clusters whose head has died
carryForwardDeadHeads(prev, S) ==
  LET liveIds(ms) ==
        SelectSeq([ k \in 1..Len(ms) |-> ms[k].id ], LAMBDA i : S[i].energy > 0)
  IN Array([ n \in 1..Len(prev.clusters) |->
               [ id |-> prev.clusters[n].id,
                 headId |-> prev.clusters[n].headId,
                 members |-> liveIds(prev.clusters[n].members),
                 hasSleeping |-> prev.clusters[n].hasSleeping,
                 sleepingMembers |-> liveIds(prev.clusters[n].sleepingMembers) ] ])

\* the topology carried forward from the previous frame
carryForward(prev, S) ==
  LET liveIds(ms) ==
        SelectSeq([ k \in 1..Len(ms) |-> ms[k].id ], LAMBDA i : S[i].energy > 0)
      mapped == [ n \in 1..Len(prev.clusters) |->
                    [ id |-> prev.clusters[n].id,
                      headId |-> prev.clusters[n].headId,
                      members |-> liveIds(prev.clusters[n].members),
                      hasSleeping |-> prev.clusters[n].hasSleeping,
                      sleepingMembers |-> liveIds(prev.clusters[n].sleepingMembers) ] ]
  IN SelectSeq(mapped, LAMBDA c : S[c.headId].energy > 0)

\* the ids of the sensors with isAsleep and energy > 0
sleepingNodesOf(S) == SortedIds({i \in DOMAIN S : S[i].isAsleep /\ S[i].energy > 0})

\* the sensors an estimate is computed for: dead or asleep
missingSensors(S) == {i \in DOMAIN S : S[i].energy <= 0 \/ S[i].isAsleep}

----------------------------------------------------------------------------
(* Derived statistics: WSNSimulationEngine.getStatsForRound *)

\* clusters.flatMap(c => [...c.members, ...(c.sleepingMembers || [])])
RECURSIVE allMembers(_)
allMembers(clusters) ==
  IF clusters = <<>> THEN <<>>
  ELSE Head(clusters).members \o Head(clusters).sleepingMembers
       \o allMembers(Tail(clusters))

\* reduce((sum, s) => sum + s.energy, 0)
RECURSIVE energySum(_)
energySum(ms) == IF ms = <<>> THEN 0 ELSE Head(ms).energy + energySum(Tail(ms))

\* parseFloat(v.toFixed(1)) of the quotient num / den of energy units, in
\* tenths
toFixed1(num, den) == (2 * num + 100 * den) \div (200 * den)

\* variant of lastClusteringRoundOf that rounds up to the next multiple
lastClusteringRoundUp(round, cfg) ==
  ((round + cfg.clusteringInterval - 1) \div cfg.clusteringInterval)
    * cfg.clusteringInterval

\* Math.floor(round / clusteringInterval) * clusteringInterval
lastClusteringRoundOf(round, cfg) ==
  (round \div cfg.clusteringInterval) * cfg.clusteringInterval

\* the statistics of a round past the end of the history
NoStats(round) ==
  [round |-> round, aliveSensors |-> 0, totalEnergy |-> 0, averageEnergy |-> 0,
   clusters |-> 0, lastClusteringRound |-> 0, sleepingNodes |-> 0,
   activeNodes |-> 0, threw |-> FALSE]

\* getStatsForRound(result, algorithm, round) under configuration cfg;
\* result is result.algorithms.  history[round] of a negative round is
\* undefined and reading its clusters throws.
getStatsForRound(result, algo, round, cfg) ==
  LET algorithmResult == result[algo]
  IN IF round >= Len(algorithmResult.history) THEN NoStats(round)
     ELSE IF round < 0 THEN [NoStats(round) EXCEPT !.threw = TRUE]
     ELSE
       LET historyItem == algorithmResult.history[round + 1]
           members == allMembers(historyItem.clusters)
           aliveSensors == SelectSeq(members, LAMBDA m : m.energy > 0)
           activeSensors == SelectSeq(aliveSensors, LAMBDA m : ~ m.isAsleep)
           sleepingSensors == SelectSeq(aliveSensors, LAMBDA m : m.isAsleep)
           totalEnergy == energySum(aliveSensors)
       IN [round |-> round,
           aliveSensors |-> Len(aliveSensors),
           totalEnergy |-> toFixed1(totalEnergy, 1),
           averageEnergy |-> IF Len(aliveSensors) > 0
                             THEN toFixed1(totalEnergy, Len(aliveSensors))
                             ELSE 0,
           clusters |-> Len(historyItem.clusters),
           lastClusteringRound |-> lastClusteringRoundOf(round, cfg),
           sleepingNodes |-> Len(sleepingSensors),
           activeNodes |-> Len(activeSensors),
           threw |-> FALSE]

----------------------------------------------------------------------------
(* The engine: WSNSimulationEngine *)

VARIABLES
  pc,                  \* position inside runSimulation
  config,              \* this.config
  maxRounds,           \* the maxRounds argument of runSimulation
  simCount,            \* number of runSimulation calls on this engine
  sensors,             \* this.sensors
  algorithm,           \* the strategy runSingleAlgorithm is running
  algorithmSensors,    \* the strategy's working copy
  history,             \* the RoundFrames of the run
  estimationErrors,    \* the error series of the run
  lastKnown,           \* the last-known-reading cache of the run
  round,
  lastClusteringRound,
  networkLifetime,
  networkEnded,
  leachNodes,          \* LeachClusteringAlgorithm.nodes
  leachRoundsPerCycle, \* LeachClusteringAlgorithm.roundsPerCycle
  infoSamples,         \* InfoKMeansClusteringAlgorithm window lengths
  infoScore,           \* entropy score level of each sensor's readings
  results,             \* the AlgorithmResult of each strategy
  roundLog,            \* observation of the last executed round
  aliveTrace,          \* alive count at the start of each executed round
  activeTrace,         \* ids alive and awake at the end of each executed round
  headLog,             \* observation of the LEACH head selections of the run
  previous,            \* layout and histories of the previous runSimulation
  originalSensors,     \* the copy of the layout that runSimulation returns
  aliased,             \* the working copy holds the objects of this.sensors
  call                 \* a direct call of a strategy or engine method

vars == << pc, config, maxRounds, simCount, sensors, algorithm, algorithmSensors,
           history, estimationErrors, lastKnown, round, lastClusteringRound,
           networkLifetime, networkEnded, leachNodes, leachRoundsPerCycle,
           infoSamples, infoScore, results, roundLog, aliveTrace, activeTrace,
           headLog,
           previous, originalSensors, aliased, call >>

Algorithms == <<"kmeans", "leach", "info-kmeans">>

\* the strategies whose cluster() has no input besides the sensors, the
\* configuration and the strategy object's own fields
Repeatable == {"kmeans", "leach"}

NoResult ==
  [history |-> <<>>, networkLifetime |-> 0, totalRounds |-> 0, estimationErrors |-> <<>>]

NoReading == [salinity |-> 0, pressure |-> 0, temperature |-> 0, ph |-> 0]

NoRoundLog ==
  [recluster |-> FALSE, topology |-> <<>>, formed |-> <<>>, idle |-> <<>>]

\* variant of deepCopySensors that returns its argument
sameSensors(S) == [array |-> S, alias |-> TRUE]

\* sensors.map(s => ({...s})): a new array of new objects
deepCopySensors(S) == [array |-> [ i \in DOMAIN S |-> S[i] ], alias |-> FALSE]

\* the array a reference made by deepCopySensors leads to
arrayOf(copy) == IF copy.alias THEN sensors ELSE copy.array

\* no score: the strategy in hand computes none
noScore == <<>>

\* the entropy score levels the readings of a run can have
scoreInputs ==
  IF algorithm = "info-kmeans"
  THEN [Ids(config.numSensors) -> ScoreLevels]
  ELSE {noScore}

\* the state the constructor leaves; the layout is generated by runSimulation
EngineConstructed(cfg) ==
  /\ pc = "idle"
  /\ config = cfg
  /\ maxRounds = MaxRounds
  /\ simCount = 0
  /\ sensors = <<>>
  /\ algorithm = "kmeans"
  /\ algorithmSensors = <<>>
  /\ history = <<>>
  /\ estimationErrors = <<>>
  /\ lastKnown = <<>>
  /\ round = 0
  /\ lastClusteringRound = -1
  /\ networkLifetime = 0
  /\ networkEnded = FALSE
  /\ leachNodes = <<>>
  /\ leachRoundsPerCycle = 10
  /\ infoSamples = clearHistory(config)
  /\ infoScore = noScore
  /\ results = [a \in Range(Algorithms) |-> NoResult]
  /\ roundLog = NoRoundLog
  /\ aliveTrace = <<>>
  /\ activeTrace = <<>>
  /\ headLog = <<>>
  /\ previous = [valid |-> FALSE, sensors |-> <<>>,
                 histories |-> [a \in Repeatable |-> <<>>]]
  /\ originalSensors = deepCopySensors(sensors)
  /\ aliased = FALSE

\* no direct call: the engine is driven through runSimulation
NoCall == [fn |-> "none"]

Init ==
  /\ \E cfg \in Configs : EngineConstructed(cfg)
  /\ call = NoCall

runVars == << algorithmSensors, history, estimationErrors, lastKnown, round,
              lastClusteringRound, networkLifetime, networkEnded, roundLog,
              aliveTrace, activeTrace, headLog, infoScore, aliased >>

\* the locals of runSingleAlgorithm go out of scope when it returns
LeaveRun ==
  /\ algorithmSensors' = <<>>
  /\ history' = <<>>
  /\ estimationErrors' = <<>>
  /\ lastKnown' = <<>>
  /\ round' = 0
  /\ lastClusteringRound' = -1
  /\ networkLifetime' = 0
  /\ networkEnded' = FALSE
  /\ roundLog' = NoRoundLog
  /\ aliveTrace' = <<>>
  /\ activeTrace' = <<>>
  /\ headLog' = <<>>
  /\ infoScore' = noScore
  /\ aliased' = FALSE

\* updateConfig, called on an engine that has not run a simulation yet, with
\* an update that leads to one of the configurations of the model
UpdateConfig(newConfig) ==
  /\ pc = "idle"
  /\ mergeConfig(config, newConfig) \in Configs
  /\ config' = mergeConfig(config, newConfig)
  /\ infoSamples' = clearHistory(config')
  /\ UNCHANGED << pc, maxRounds, call, originalSensors, simCount, sensors, algorithm, leachNodes,
                  leachRoundsPerCycle, results, previous >>
  /\ UNCHANGED runVars

\* runSimulation up to the first runSingleAlgorithm call
RunSimulation(l) ==
  /\ pc \in {"idle", "done"}
  /\ simCount < MaxSimulations
  /\ sensors' = generateSensors(config, l)
  /\ originalSensors' = deepCopySensors(sensors')
  /\ simCount' = simCount + 1
  /\ previous' = [valid |-> simCount > 0, sensors |-> sensors,
                  histories |-> [a \in Repeatable |-> results[a].history]]
  /\ results' = [a \in Range(Algorithms) |-> NoResult]
  /\ algorithm' = "kmeans"
  /\ pc' = "start"
  /\ UNCHANGED << config, maxRounds, call, leachNodes, leachRoundsPerCycle,
                  infoSamples >>
  /\ UNCHANGED runVars

\* runSingleAlgorithm up to the round loop
StartAlgorithm(score) ==
  /\ pc = "start"
  /\ infoScore' = score
  /\ algorithmSensors' = deepCopySensors(sensors).array
  /\ aliased' = deepCopySensors(sensors).alias
  /\ history' = <<>>
  /\ estimationErrors' = <<>>
  /\ infoSamples' = IF algorithm = "info-kmeans" THEN clearHistory(config) ELSE infoSamples
  /\ lastKnown' = [i \in DOMAIN sensors |-> [has |-> FALSE, data |-> NoReading]]
  /\ round' = 0
  /\ lastClusteringRound' = -1
  /\ networkLifetime' = 0
  /\ networkEnded' = FALSE
  /\ roundLog' = NoRoundLog
  /\ aliveTrace' = <<>>
  /\ activeTrace' = <<>>
  /\ headLog' = <<>>
  /\ pc' = "running"
  /\ UNCHANGED << config, maxRounds, call, originalSensors, simCount, sensors, algorithm, leachNodes,
                  leachRoundsPerCycle, results, previous >>

noIdle == [i \in Ids(config.numSensors) |-> 0]

\* variant of shouldRecluster that waits one round longer
shouldReclusterLate ==
  \/ round - lastClusteringRound > config.clusteringInterval
  \/ lastClusteringRound = -1

shouldRecluster ==
  \/ round - lastClusteringRound >= config.clusteringInterval
  \/ lastClusteringRound = -1

\* variant of InLoop without the round budget
InLoopNoBudget ==
  /\ pc = "running"
  /\ getAliveSensors(algorithmSensors) # <<>>

\* while (round < maxRounds) with at least one sensor alive
InLoop ==
  /\ pc = "running"
  /\ round < maxRounds
  /\ getAliveSensors(algorithmSensors) # <<>>

\* variant of updateLastKnown that also caches the reading of a sleeping
\* sensor
updateLastKnownAlive(cache, after, sensorsData) ==
  [ i \in DOMAIN cache |->
      IF after[i].energy > 0
      THEN [has |-> TRUE, data |-> sensorsData[i]]
      ELSE cache[i] ]

\* the cache loop after calculateEnergyConsumption: lastKnown.set(id, truth)
\* for the sensors with energy > 0 that are not asleep
updateLastKnown(cache, after, sensorsData) ==
  [ i \in DOMAIN cache |->
      IF after[i].energy > 0 /\ ~ after[i].isAsleep
      THEN [has |-> TRUE, data |-> sensorsData[i]]
      ELSE cache[i] ]

\* the rest of a round once its topology is known: energy, cache, error
\* entry, frame, round counter.  S is the working copy after cluster().
FinishRound(clusters, S, reclustered) ==
  \E e \in {calculateEnergyConsumption(clusters, S, algorithm, config, noIdle)} :
  LET after == e.sensors
      sensorsData == readSensors(S, round, config)
  IN /\ algorithmSensors' = after
     /\ sensors' = IF aliased THEN after ELSE sensors
     /\ lastKnown' = updateLastKnown(lastKnown, after, sensorsData)
     /\ estimationErrors' = Append(estimationErrors,
                                   [round |-> round, missing |-> missingSensors(after),
                                    lastKnown |-> lastKnown'])
     /\ history' = Append(history,
                          [clusters |-> frameClusters(clusters, after),
                           sensorsData |-> sensorsData,
                           sleepingNodes |-> sleepingNodesOf(after)])
     /\ round' = round + 1
     /\ roundLog' = [recluster |-> reclustered, topology |-> clusters,
                     formed |-> S, idle |-> e.idle]
     /\ aliveTrace' = Append(aliveTrace, Len(getAliveSensors(algorithmSensors)))
     /\ activeTrace' = Append(activeTrace,
                              {i \in DOMAIN after :
                                 after[i].energy > 0 /\ ~ after[i].isAsleep})
     /\ UNCHANGED << pc, config, maxRounds, call, originalSensors, simCount,
                     algorithm, networkLifetime, networkEnded, infoScore, results,
                     previous, aliased >>

\* a round in which the centroid-based strategy is invoked
KMeansRound ==
  /\ InLoop
  /\ algorithm = "kmeans"
  /\ shouldRecluster
  /\ lastClusteringRound' = round
  /\ FinishRound(kmeansCluster(algorithmSensors, SortedIds(DOMAIN algorithmSensors), config),
                 algorithmSensors, TRUE)
  /\ UNCHANGED << leachNodes, leachRoundsPerCycle, infoSamples, headLog >>

\* a round in which the rotating-head strategy is invoked
LeachRound ==
  /\ InLoop
  /\ algorithm = "leach"
  /\ shouldRecluster
  /\ LET epoch == round \div config.clusteringInterval
         r == leachCluster(algorithmSensors, config, epoch, leachNodes,
                           leachRoundsPerCycle)
     IN /\ leachNodes' = r.nodes
        /\ leachRoundsPerCycle' = r.roundsPerCycle
        /\ headLog' = Append(headLog,
                             [epoch |-> epoch, roundsPerCycle |-> r.roundsPerCycle,
                              ranked |-> r.ranked, forced |-> r.forced,
                              emergency |-> r.emergency])
        /\ FinishRound(r.clusters, algorithmSensors, TRUE)
  /\ lastClusteringRound' = round
  /\ UNCHANGED infoSamples

\* a round in which the entropy-gated strategy is invoked
InfoKMeansRound ==
  /\ InLoop
  /\ algorithm = "info-kmeans"
  /\ shouldRecluster
  /\ \E r \in {infoKmeansCluster(algorithmSensors, config, infoSamples, infoScore)} :
        /\ infoSamples' = r.samples
        /\ FinishRound(r.clusters, r.sensors, TRUE)
  /\ lastClusteringRound' = round
  /\ UNCHANGED << leachNodes, leachRoundsPerCycle, headLog >>

\* a round that carries the previous frame's topology forward
CarryForwardRound ==
  /\ InLoop
  /\ ~ shouldRecluster
  /\ FinishRound(IF history = <<>> THEN <<>>
                 ELSE carryForward(history[Len(history)], algorithmSensors),
                 algorithmSensors, FALSE)
  /\ UNCHANGED << lastClusteringRound, leachNodes, leachRoundsPerCycle,
                  infoSamples, headLog >>

\* variant of lifetimeAtExit that counts the round after the last one
lifetimeAtExitNext(lifetime, r) == IF lifetime = 0 THEN r + 1 ELSE lifetime

\* if (networkLifetime === 0) networkLifetime = round
lifetimeAtExit(lifetime, r) == IF lifetime = 0 THEN r ELSE lifetime

\* variant of resultOf that reports the round before the lifetime
resultOfRoundBefore(lifetime) ==
  [history |-> history, networkLifetime |-> Max2(0, lifetime - 1),
   totalRounds |-> round, estimationErrors |-> estimationErrors]

\* the AlgorithmResult assembled after the loop
resultOf(lifetime) ==
  [history |-> history, networkLifetime |-> lifetime,
   totalRounds |-> round, estimationErrors |-> estimationErrors]

\* the loop finds no sensor alive and breaks; the result is assembled
NetworkEnded ==
  /\ pc = "running"
  /\ round < maxRounds
  /\ getAliveSensors(algorithmSensors) = <<>>
  /\ networkLifetime' = lifetimeAtExit(lifetimeAtExit(networkLifetime, round), round)
  /\ networkEnded' = TRUE
  /\ results' = [results EXCEPT ![algorithm] = resultOf(networkLifetime')]
  /\ pc' = "finished"
  /\ UNCHANGED << config, maxRounds, call, originalSensors, simCount, sensors, algorithm, algorithmSensors,
                  history, estimationErrors, lastKnown, round, lastClusteringRound,
                  leachNodes, leachRoundsPerCycle, infoSamples, infoScore, roundLog,
                  aliveTrace, activeTrace, headLog, previous, aliased >>

\* the loop condition round < maxRounds fails; the result is assembled
BudgetExhausted ==
  /\ pc = "running"
  /\ ~ (round < maxRounds)
  /\ networkLifetime' = lifetimeAtExit(networkLifetime, round)
  /\ results' = [results EXCEPT ![algorithm] = resultOf(networkLifetime')]
  /\ pc' = "finished"
  /\ UNCHANGED << config, maxRounds, call, originalSensors, simCount, sensors, algorithm, algorithmSensors,
                  history, estimationErrors, lastKnown, round, lastClusteringRound,
                  networkEnded, leachNodes, leachRoundsPerCycle, infoSamples,
                  infoScore, roundLog, aliveTrace, activeTrace, headLog, previous,
                  aliased >>

\* runSimulation goes on to the next strategy
NextAlgorithm ==
  /\ pc = "finished"
  /\ algorithm # "info-kmeans"
  /\ algorithm' = IF algorithm = "kmeans" THEN "leach" ELSE "info-kmeans"
  /\ pc' = "start"
  /\ LeaveRun
  /\ UNCHANGED << config, maxRounds, call, originalSensors, simCount, sensors, leachNodes,
                  leachRoundsPerCycle, infoSamples, results, previous >>

\* variant of maxAchievedRounds that overshoots the longest run by a round
maxAchievedRoundsNext(res) ==
  1 + Max2(res["kmeans"].totalRounds,
           Max2(res["leach"].totalRounds, res["info-kmeans"].totalRounds))

\* Math.max of the three totalRounds
maxAchievedRounds(res) ==
  Max2(res["kmeans"].totalRounds,
       Max2(res["leach"].totalRounds, res["info-kmeans"].totalRounds))

\* the first loop of calculateExtendedErrors over one frame: the reading of
\* a sensor is cached when the first snapshot of the sensor among the
\* frame's cluster members is alive and not asleep
cacheFromFrame(historyItem, cache) ==
  LET members == allMembers(historyItem.clusters)
      found(i) == SelectSeq(members, LAMBDA m : m.id = i)
  IN [ i \in DOMAIN cache |->
         IF /\ found(i) # <<>>
            /\ Head(found(i)).energy > 0
            /\ ~ Head(found(i)).isAsleep
         THEN [has |-> TRUE, data |-> historyItem.sensorsData[i]]
         ELSE cache[i] ]

\* for (round = 0; round < currentRounds; round++) from frame n on
RECURSIVE rebuildFrom(_, _, _)
rebuildFrom(result, n, cache) ==
  IF n > result.totalRounds THEN cache
  ELSE rebuildFrom(result, n + 1, cacheFromFrame(result.history[n], cache))

\* the lastKnown map calculateExtendedErrors rebuilds from the history
rebuildLastKnown(result, S) ==
  rebuildFrom(result, 1, [i \in DOMAIN S |-> [has |-> FALSE, data |-> NoReading]])

\* variant of extendErrors that stops one round short of the limit
extendErrorsShort(result, limit) ==
  IF result.totalRounds < limit
  THEN [result EXCEPT
          !.estimationErrors =
             @ \o [ n \in 1..(limit - result.totalRounds - 1) |->
                      [round |-> result.totalRounds + n - 1,
                       missing |-> DOMAIN sensors,
                       lastKnown |-> rebuildLastKnown(result, sensors)] ],
          !.totalRounds = limit]
  ELSE result

\* calculateExtendedErrors for one strategy: every sensor of the layout is
\* estimated in each appended round
extendErrors(result, limit) ==
  IF result.totalRounds < limit
  THEN [result EXCEPT
          !.estimationErrors =
             @ \o [ n \in 1..(limit - result.totalRounds) |->
                      [round |-> result.totalRounds + n - 1,
                       missing |-> DOMAIN sensors,
                       lastKnown |-> rebuildLastKnown(result, sensors)] ],
          !.totalRounds = limit]
  ELSE result

\* calculateExtendedErrors and the return of runSimulation
CalculateExtendedErrors ==
  /\ pc = "finished"
  /\ algorithm = "info-kmeans"
  /\ results' = [a \in Range(Algorithms) |->
                   extendErrors(results[a], maxAchievedRounds(results))]
  /\ pc' = "done"
  /\ LeaveRun
  /\ UNCHANGED << config, maxRounds, call, originalSensors, simCount, sensors, algorithm, leachNodes,
                  leachRoundsPerCycle, infoSamples, previous >>

Next ==
  \/ \E newConfig \in ConfigUpdates : UpdateConfig(newConfig)
  \/ \E l \in LayoutIds : RunSimulation(l)
  \/ \E score \in scoreInputs : StartAlgorithm(score)
  \/ KMeansRound
  \/ LeachRound
  \/ InfoKMeansRound
  \/ CarryForwardRound
  \/ NetworkEnded
  \/ BudgetExhausted
  \/ NextAlgorithm
  \/ CalculateExtendedErrors

Spec == Init /\ [][Next]_vars

----------------------------------------------------------------------------
(* Direct calls of KMeansClusteringAlgorithm.cluster on layouts of pairwise *)
(* distinct positions                                                       *)

engineVars == << pc, config, maxRounds, simCount, sensors, algorithm,
                 algorithmSensors, history, estimationErrors, lastKnown, round,
                 lastClusteringRound, networkLifetime, networkEnded, leachNodes,
                 leachRoundsPerCycle, infoSamples, infoScore, results, roundLog,
                 aliveTrace, activeTrace, headLog, previous, originalSensors,
                 aliased >>

\* the positions the sensors of a directly given layout lie on
ProbePoints ==
  << [x |-> 10, y |-> 10], [x |-> 30, y |-> 10], [x |-> 60, y |-> 10],
     [x |-> 90, y |-> 10], [x |-> 10, y |-> 50], [x |-> 30, y |-> 50],
     [x |-> 60, y |-> 50], [x |-> 90, y |-> 50], [x |-> 10, y |-> 80],
     [x |-> 30, y |-> 80], [x |-> 60, y |-> 80], [x |-> 90, y |-> 80] >>

\* the sensors argument: cfg.numSensors sensors on distinct positions
ProbeLayouts(cfg) ==
  { [ i \in Ids(cfg.numSensors) |->
        [ id |-> i, x |-> ProbePoints[f[i]].x, y |-> ProbePoints[f[i]].y,
          energy |-> cfg.initialEnergy, isAsleep |-> FALSE ] ] :
      f \in { g \in [Ids(cfg.numSensors) -> 1..Len(ProbePoints)] :
                \A i, j \in Ids(cfg.numSensors) : i < j => g[i] < g[j] } }

\* configurations under which cluster() enters its loop on a live layout
KMeansConfigs ==
  { c \in ValidConfigs :
      /\ c.numSensors >= 2 /\ c.numClusters >= 2
      /\ c.initialEnergy > 0 /\ c.clusteringInterval = 1 }

KMeansInit ==
  /\ \E cfg \in KMeansConfigs : EngineConstructed(cfg)
  /\ call \in { [fn |-> "kmeans.cluster", sensors |-> S, returned |-> FALSE,
                  iteration |-> 0, converged |-> FALSE, clusters |-> <<>>] :
                   S \in ProbeLayouts(config) }

\* cluster(sensors, config): the clusters it returns, and the iteration
\* count and convergence flag its loop ended with
KMeansCall ==
  /\ call.fn = "kmeans.cluster"
  /\ ~ call.returned
  /\ LET aliveSensors == SelectSeq(SortedIds(DOMAIN call.sensors),
                                   LAMBDA i : call.sensors[i].energy > 0)
         k == effectiveK(config, Len(aliveSensors))
     IN \E r \in {lloydRun(call.sensors, aliveSensors, k, config)} :
          call' = [call EXCEPT
                     !.returned = TRUE,
                     !.iteration = r.iteration,
                     !.converged = r.converged,
                     !.clusters = kmeansCluster(call.sensors,
                                                SortedIds(DOMAIN call.sensors),
                                                config)]
  /\ UNCHANGED engineVars

KMeansNext == KMeansCall

KMeansSpec == KMeansInit /\ [][KMeansNext]_vars

----------------------------------------------------------------------------
(* estimateSensorValueEnhanced as a function of its arguments *)

\* this.distance, rounded down to a whole coordinate step
distanceFloor(a, b) ==
  CHOOSE c \in 0..200 : c * c <= distance2(a, b) /\ distance2(a, b) < (c + 1) * (c + 1)

\* allSensors.filter(s => s.id !== target.id).sort(by distance to target)
\* .slice(0, EST_K); the sort is stable, so equal distances keep array order
nearestNeighbors(target, allSensors) ==
  LET others == SelectSeq(SortedIds(DOMAIN allSensors), LAMBDA i : i # target.id)
      before(i, j) ==
        \/ distance2(allSensors[i], target) < distance2(allSensors[j], target)
        \/ /\ distance2(allSensors[i], target) = distance2(allSensors[j], target)
           /\ i < j
      rank(i) == Cardinality({j \in Range(others) : before(j, i)}) + 1
      sorted == [ n \in 1..Len(others) |->
                   CHOOSE i \in Range(others) : rank(i) = n ]
  IN SubSeq(sorted, 1, Min2(EST_K, Len(sorted)))

\* the weight 1 / (distance + EPS) of a neighbour
weightOf(neighbor, target) ==
  WeightScale \div (distanceFloor(neighbor, target) * DistanceUnit + EPS)

\* wSum: the sum of the weights of the used neighbours
RECURSIVE weightSum(_, _, _)
weightSum(ids, target, allSensors) ==
  IF ids = <<>> THEN 0
  ELSE weightOf(allSensors[Head(ids)], target)
         + weightSum(Tail(ids), target, allSensors)

\* acc[field]: the weighted sum of the used neighbours' cached readings
RECURSIVE weightedSum(_, _, _, _, _)
weightedSum(ids, field, cache, target, allSensors) ==
  IF ids = <<>> THEN 0
  ELSE cache[Head(ids)].data[field] * weightOf(allSensors[Head(ids)], target)
         + weightedSum(Tail(ids), field, cache, target, allSensors)

\* estimateSensorValueEnhanced: the neighbours whose cached reading entered
\* the estimate, whether the environment was queried instead, and the value
estimateSensorValueEnhanced(target, roundIdx, cache, allSensors, cfg) ==
  LET allNeighbors == nearestNeighbors(target, allSensors)
      used == SelectSeq(allNeighbors, LAMBDA i : cache[i].has)
      wSum == weightSum(used, target, allSensors)
      acc(field) == weightedSum(used, field, cache, target, allSensors)
  IN IF allNeighbors = <<>> \/ used = <<>>
     THEN [used |-> <<>>, environment |-> TRUE,
           value |-> getSensorData(target.x, target.y, roundIdx, cfg)]
     ELSE [used |-> used, environment |-> FALSE,
           value |-> [salinity |-> acc("salinity") \div wSum,
                      pressure |-> acc("pressure") \div wSum,
                      temperature |-> acc("temperature") \div wSum,
                      ph |-> acc("ph") \div wSum]]

\* the configuration the estimates are computed under
EstimateConfigs ==
  { c \in ValidConfigs :
      /\ c.numSensors = MaxSensors /\ c.numClusters = DefaultClusters
      /\ c.initialEnergy > 0 /\ c.clusteringInterval = 1 }

\* the allSensors argument: EstimateSensors sensors on consecutive probe
\* points, starting at any of them
EstimateLayouts(cfg) ==
  { [ i \in Ids(EstimateSensors) |->
        [ id |-> i,
          x |-> ProbePoints[((i + shift) % Len(ProbePoints)) + 1].x,
          y |-> ProbePoints[((i + shift) % Len(ProbePoints)) + 1].y,
          energy |-> cfg.initialEnergy, isAsleep |-> FALSE ] ] :
      shift \in 0..(Len(ProbePoints) - 1) }

\* the lastKnown argument: the round-0 readings of at most MaxCached sensors
EstimateCaches(S, cfg) ==
  { [ i \in DOMAIN S |->
        IF i \in cached
        THEN [has |-> TRUE, data |-> getSensorData(S[i].x, S[i].y, 0, cfg)]
        ELSE [has |-> FALSE, data |-> NoReading] ] :
      cached \in {c \in SUBSET DOMAIN S : Cardinality(c) <= MaxCached} }

EstimateInit ==
  /\ \E cfg \in EstimateConfigs : EngineConstructed(cfg)
  /\ \E S \in EstimateLayouts(config) :
       call \in { [fn |-> "estimate", sensors |-> S, target |-> t, roundIdx |-> 1,
                   lastKnown |-> cache, returned |-> FALSE,
                   used |-> <<>>, environment |-> FALSE, value |-> NoReading] :
                    t \in DOMAIN S, cache \in EstimateCaches(S, config) }

\* estimateSensorValueEnhanced(target, roundIdx, lastKnown, allSensors)
EstimateCall ==
  /\ call.fn = "estimate"
  /\ ~ call.returned
  /\ \E r \in {estimateSensorValueEnhanced(call.sensors[call.target], call.roundIdx,
                                            call.lastKnown, call.sensors, config)} :
       call' = [call EXCEPT !.returned = TRUE, !.used = r.used,
                            !.environment = r.environment, !.value = r.value]
  /\ UNCHANGED engineVars

EstimateNext == EstimateCall

EstimateSpec == EstimateInit /\ [][EstimateNext]_vars

----------------------------------------------------------------------------
(* getSensorData as a function of its arguments *)

\* the configurations the readings are taken under: the default ranges, and
\* a salinity range whose lower bound has a third decimal
ReadingConfigs ==
  LET base == { c \in ValidConfigs :
                  /\ c.numSensors = MaxSensors /\ c.numClusters = DefaultClusters
                  /\ c.initialEnergy > 0 /\ c.clusteringInterval = 1 }
  IN base \cup { [c EXCEPT !.minSalinity = 30004] : c \in base }

\* the positions Math.random() * width, Math.random() * height can take, on
\* a grid of 5
ReadingPositions(cfg) ==
  { [x |-> 5 * a, y |-> 5 * b] :
      a \in 0..((cfg.width \div 5) - 1), b \in 0..((cfg.height \div 5) - 1) }

ReadingInit ==
  /\ \E cfg \in ReadingConfigs : EngineConstructed(cfg)
  /\ call \in { [fn |-> "getSensorData", x |-> p.x, y |-> p.y, round |-> r,
                  returned |-> FALSE, data |-> NoReading] :
                   p \in ReadingPositions(config), r \in 0..(MaxRounds - 1) }

\* environmentModule.getSensorData(x, y, round)
ReadingCall ==
  /\ call.fn = "getSensorData"
  /\ ~ call.returned
  /\ call' = [call EXCEPT !.returned = TRUE,
                          !.data = getSensorData(call.x, call.y, call.round, config)]
  /\ UNCHANGED engineVars

ReadingNext == ReadingCall

ReadingSpec == ReadingInit /\ [][ReadingNext]_vars

----------------------------------------------------------------------------
(* Playback: the useSimulation hook driving one engine                      *)
(* The hook's React state is the record call; simulationResult is the       *)
(* engine's results once a run has been delivered.  runSimulation runs      *)
(* inside the timeout callback of startSimulation, so no other event is     *)
(* handled between its first step and the callback's setters.  Every state  *)
(* change is followed by a render, in which the Timeline calls              *)
(* getCurrentStats, and then by the effects whose dependencies changed.     *)

\* configurations of the played-back runs: two sensors; no initial energy
\* (no frame is recorded), or full energy with reclustering every second
\* round and zero or one cluster
PlaybackConfigs ==
  { c \in ValidConfigs :
      /\ c.numSensors = 2
      /\ \/ c.initialEnergy = 0 /\ c.numClusters = 1 /\ c.clusteringInterval = 1
         \/ /\ c.initialEnergy > 0 /\ c.numClusters \in {0, 1}
            /\ c.clusteringInterval = MaxInterval }

\* the rounds a seek can ask for: the slider, the step buttons and callers
\* of the hook's setCurrentRound
SeekRounds == (-1)..MaxRounds

\* simulationResult.algorithms[algorithm].history.length - 1
lastFrame(ui) == Len(results[ui.algorithm].history) - 1

\* getCurrentStats: null without a result, else the engine's statistics of
\* the selected strategy at the playback position
getCurrentStats(ui) ==
  IF ~ ui.hasResult
  THEN [called |-> FALSE, value |-> NoStats(0)]
  ELSE [called |-> TRUE,
        value |-> getStatsForRound(results, ui.algorithm, ui.currentRound, config)]

\* the render after a state change: the Timeline queries the statistics,
\* and the clamping effect is scheduled when one of its dependencies
\* (algorithm, simulationResult, currentRound) changed
rendered(old, new, resultChanged) ==
  [new EXCEPT
     !.stats = getCurrentStats(new),
     !.effectDue = \/ old.effectDue
                   \/ resultChanged
                   \/ old.algorithm # new.algorithm
                   \/ old.currentRound # new.currentRound]

\* the hook after mount: useState initial values, effects run
Mounted ==
  [fn |-> "useSimulation", hasResult |-> FALSE, currentRound |-> 0,
   isRunning |-> FALSE, isPaused |-> FALSE, autoRun |-> FALSE,
   algorithm |-> "kmeans", starts |-> 0, delivered |-> 0,
   effectDue |-> FALSE, stats |-> [called |-> FALSE, value |-> NoStats(0)]]

PlaybackInit ==
  /\ \E cfg \in PlaybackConfigs : EngineConstructed(cfg)
  /\ call = Mounted

\* an event handler can run: no runSimulation is on the stack, the effects
\* of the last render have been flushed and no render has thrown
Responsive ==
  /\ call.fn = "useSimulation"
  /\ pc \in {"idle", "done"}
  /\ call.delivered = simCount
  /\ ~ call.stats.value.threw

Interactive == Responsive /\ ~ call.effectDue

\* startSimulation: schedules the timeout callback
StartSimulation ==
  /\ Interactive
  /\ call.starts < MaxSimulations
  /\ call' = [call EXCEPT !.starts = @ + 1]
  /\ UNCHANGED engineVars

\* the timeout callback of startSimulation enters runSimulation
StartTimeout(l) ==
  /\ Interactive
  /\ call.starts > simCount
  /\ RunSimulation(l)

\* the timeout callback after runSimulation returned: setSimulationResult,
\* setCurrentRound(0), setIsRunning(true), setIsPaused(false)
StartDelivered ==
  /\ call.fn = "useSimulation"
  /\ pc = "done"
  /\ call.delivered < simCount
  /\ call' = rendered(call,
                      [call EXCEPT !.hasResult = TRUE, !.currentRound = 0,
                                   !.isRunning = TRUE, !.isPaused = FALSE,
                                   !.delivered = simCount],
                      TRUE)
  /\ UNCHANGED engineVars

\* pauseSimulation
PauseSimulation ==
  /\ Interactive
  /\ call' = rendered(call, [call EXCEPT !.isPaused = ~ @], FALSE)
  /\ UNCHANGED engineVars

\* stopSimulation
StopSimulation ==
  /\ Interactive
  /\ call' = rendered(call,
                      [call EXCEPT !.isRunning = FALSE, !.isPaused = FALSE,
                                   !.currentRound = 0],
                      FALSE)
  /\ UNCHANGED engineVars

\* resetSimulation
ResetSimulation ==
  /\ Interactive
  /\ call' = rendered(call,
                      [call EXCEPT !.hasResult = FALSE, !.currentRound = 0,
                                   !.isRunning = FALSE, !.isPaused = FALSE],
                      call.hasResult)
  /\ UNCHANGED engineVars

\* setCurrentRoundSafe(round)
SetCurrentRoundSafe(r) ==
  /\ Interactive
  /\ LET safeRound == Max2(0, Min2(r, lastFrame(call)))
     IN call' = rendered(call,
                         [call EXCEPT !.currentRound =
                                        IF call.hasResult THEN safeRound ELSE r],
                         FALSE)
  /\ UNCHANGED engineVars

\* setAlgorithm(a)
SetAlgorithm(a) ==
  /\ Interactive
  /\ call' = rendered(call, [call EXCEPT !.algorithm = a], FALSE)
  /\ UNCHANGED engineVars

\* setAutoRun(v)
SetAutoRun(v) ==
  /\ Interactive
  /\ call' = rendered(call, [call EXCEPT !.autoRun = v], FALSE)
  /\ UNCHANGED engineVars

\* a tick of the playback interval, which exists while autoRun, a result,
\* isRunning and not isPaused hold
TimerTick ==
  /\ Interactive
  /\ call.autoRun /\ call.hasResult /\ call.isRunning /\ ~ call.isPaused
  /\ LET nextRound == call.currentRound + 1
     IN call' = rendered(call,
                         IF nextRound > lastFrame(call)
                         THEN [call EXCEPT !.isRunning = FALSE]
                         ELSE [call EXCEPT !.currentRound = nextRound],
                         FALSE)
  /\ UNCHANGED engineVars

\* the clamping effect: with a result, a position past the last frame of
\* the selected strategy is set to the last frame
ClampEffect ==
  /\ Responsive
  /\ call.effectDue
  /\ LET flushed == [call EXCEPT !.effectDue = FALSE]
     IN call' = IF call.hasResult /\ call.currentRound > lastFrame(call)
                THEN rendered(flushed,
                              [flushed EXCEPT !.currentRound = lastFrame(call)],
                              FALSE)
                ELSE flushed
  /\ UNCHANGED engineVars

PlaybackNext ==
  \/ StartSimulation
  \/ \E l \in LayoutIds : StartTimeout(l)
  \/ \E score \in scoreInputs : StartAlgorithm(score)
  \/ KMeansRound
  \/ LeachRound
  \/ InfoKMeansRound
  \/ CarryForwardRound
  \/ NetworkEnded
  \/ BudgetExhausted
  \/ NextAlgorithm
  \/ CalculateExtendedErrors
  \/ StartDelivered
  \/ PauseSimulation
  \/ StopSimulation
  \/ ResetSimulation
  \/ \E r \in SeekRounds : SetCurrentRoundSafe(r)
  \/ \E a \in Range(Algorithms) : SetAlgorithm(a)
  \/ \E v \in BOOLEAN : SetAutoRun(v)
  \/ TimerTick
  \/ ClampEffect

PlaybackSpec == PlaybackInit /\ [][PlaybackNext]_vars

----------------------------------------------------------------------------
(* Properties *)

\* at least one round of the current run has been executed; roundLog then
\* describes the last executed round
RoundExecuted == pc \in {"running", "finished"} /\ history # <<>>

aliveIn(S) == {i \in DOMAIN S : S[i].energy > 0}

activeIn(S) == {i \in DOMAIN S : S[i].energy > 0 /\ ~ S[i].isAsleep}

\* the step taken is one pass of the round loop
RoundStep == pc = "running" /\ round' = round + 1

\* C1: in every run, over every round, each sensor's energy at the end of
\* the round is at least 0 and at most its energy at the end of the round
\* before (hence a sensor at 0 stays at 0)
C1_EnergyNonIncreasing ==
  [][ RoundStep =>
        \A i \in DOMAIN algorithmSensors :
           /\ algorithmSensors'[i].energy >= 0
           /\ algorithmSensors'[i].energy <= algorithmSensors[i].energy ]_vars

\* a round that a dead sensor went through at 0, in which a head was
\* clamped to 0 and another sensor only lost a part of its energy
C1_Witness ==
  /\ RoundExecuted
  /\ \E i, j, h \in DOMAIN algorithmSensors :
        /\ roundLog.formed[i].energy = 0 /\ algorithmSensors[i].energy = 0
        /\ roundLog.formed[j].energy > algorithmSensors[j].energy
        /\ algorithmSensors[j].energy > 0
        /\ roundLog.formed[h].energy > 0 /\ algorithmSensors[h].energy = 0
        /\ \E n \in 1..Len(roundLog.topology) : roundLog.topology[n].headId = h

\* C2: when a run has returned, networkLifetime is the number of recorded
\* RoundFrames; every executed round found a sensor alive at its start; if
\* the loop stopped at a round within the budget whose start found no sensor
\* alive, networkLifetime is that round, and otherwise it is maxRounds
C2_LifetimeIsFirstDeadRoundOrBudget ==
  pc = "finished" =>
    /\ networkLifetime = Len(history)
    /\ Len(aliveTrace) = round
    /\ \A k \in 1..Len(aliveTrace) : aliveTrace[k] > 0
    /\ IF round < maxRounds
       THEN aliveIn(algorithmSensors) = {} /\ networkLifetime = round
       ELSE networkLifetime = maxRounds

\* a run that ended before the budget, after at least one round
C2_Witness ==
  /\ pc = "finished"
  /\ networkLifetime > 0
  /\ networkLifetime < maxRounds
  /\ aliveIn(algorithmSensors) = {}

\* C3: a run of kmeans or LEACH on the layout and configuration of the
\* previous runSimulation call of the same engine records the RoundFrame
\* history that call recorded
C3_SameLayoutSameHistory ==
  ( /\ pc = "finished"
    /\ algorithm \in Repeatable
    /\ previous.valid
    /\ sensors = previous.sensors )
  => history = previous.histories[algorithm]

\* the heads of the n-th cluster() call of the LEACH run that the node
\* tracking records: chosen by the ranking or forced by the fallback
trackedHeads(n) == headLog[n].ranked \cup headLog[n].forced

\* two epochs lie within one cycle of rpc epochs (rpc = 0: Infinity)
withinCycle(earlier, later, rpc) == rpc = 0 \/ later - earlier < rpc

\* C4 as stated: across the cluster() calls of one LEACH run no sensor is
\* head twice within its current cycle length, ranked and forced heads alike
C4_NoHeadTwiceInCycle ==
  \A m, n \in 1..Len(headLog) :
    m < n =>
      \A s \in trackedHeads(m) \cap trackedHeads(n) :
         ~ withinCycle(headLog[m].epoch, headLog[n].epoch, headLog[n].roundsPerCycle)

\* C4 amended: a sensor chosen by the eligibility ranking was not head
\* (ranked or forced) within the current cycle length before
C4_NoRankedHeadTwiceInCycle ==
  \A m, n \in 1..Len(headLog) :
    m < n =>
      \A s \in trackedHeads(m) \cap headLog[n].ranked :
         ~ withinCycle(headLog[m].epoch, headLog[n].epoch, headLog[n].roundsPerCycle)

\* a sensor is chosen by the ranking again after an earlier headship, while
\* another sensor that served within the cycle is held back
C4_Witness ==
  \E m, n \in 1..Len(headLog) :
    /\ m < n
    /\ trackedHeads(m) \cap headLog[n].ranked # {}
    /\ \E q \in 1..(n - 1) :
          /\ withinCycle(headLog[q].epoch, headLog[n].epoch, headLog[n].roundsPerCycle)
          /\ trackedHeads(q) \cap aliveIn(algorithmSensors) # {}
          /\ trackedHeads(q) \cap trackedHeads(n) = {}

\* C5: after the extension pass the three error series have one length,
\* the largest number of rounds any strategy ran before the extension
C5_ErrorSeriesAligned ==
  pc = "done" =>
    \A a \in Range(Algorithms) :
       Len(results[a].estimationErrors) =
         Max2(Len(results["kmeans"].history),
              Max2(Len(results["leach"].history), Len(results["info-kmeans"].history)))

\* the pass has extended the series of a strategy that ran fewer rounds
C5_Witness ==
  /\ pc = "done"
  /\ \E a, b \in Range(Algorithms) :
        /\ Len(results[a].history) < Len(results[b].history)
        /\ Len(results[a].estimationErrors) > Len(results[a].history)

\* C6 as stated: in every round of an info-kmeans run, reclustering or
\* carry-forward, the number of alive non-sleeping sensors is at least
\* max(3, 30% of the alive count)
C6_ActiveFloorEveryRound ==
  (RoundExecuted /\ algorithm = "info-kmeans") =>
    Cardinality(activeIn(roundLog.formed)) >=
      Max2(3, CeilDiv(3 * Cardinality(aliveIn(roundLog.formed)), 10))

\* C6 amended: when cluster() of an info-kmeans run returns, the number of
\* alive non-sleeping sensors is at least max(3, 30% of the alive count), or
\* every alive sensor is awake
C6_ActiveFloorAtReclustering ==
  (RoundExecuted /\ algorithm = "info-kmeans" /\ roundLog.recluster) =>
    Cardinality(activeIn(roundLog.formed)) >=
      Min2(Cardinality(aliveIn(roundLog.formed)),
           Max2(3, CeilDiv(3 * Cardinality(aliveIn(roundLog.formed)), 10)))

\* cluster() has put a sensor to sleep and left exactly the floor awake
C6_Witness ==
  /\ RoundExecuted /\ algorithm = "info-kmeans" /\ roundLog.recluster
  /\ aliveIn(roundLog.formed) \ activeIn(roundLog.formed) # {}
  /\ Cardinality(activeIn(roundLog.formed)) = 3

\* C7: in every round each sensor that is alive and awake when the round's
\* topology is formed is charged the idle drain exactly once
C7_IdleDrainOncePerRound ==
  RoundExecuted =>
    \A i \in activeIn(roundLog.formed) : roundLog.idle[i] = 1

\* C8: in kmeans and LEACH runs every cluster of the topology of a round,
\* computed or carried forward, has its head among its members exactly
\* once, and the head has energy > 0 when the topology is formed
C8_OneLiveHeadAmongMembers ==
  (RoundExecuted /\ algorithm \in Repeatable) =>
    \A n \in 1..Len(roundLog.topology) :
       LET c == roundLog.topology[n]
       IN /\ c.headId \in DOMAIN roundLog.formed
          /\ roundLog.formed[c.headId].energy > 0
          /\ Cardinality({k \in 1..Len(c.members) : c.members[k] = c.headId}) = 1

\* a carried-forward topology from which the cluster of a dead head was
\* dropped, with a cluster left
C8_Witness ==
  /\ RoundExecuted /\ algorithm \in Repeatable
  /\ ~ roundLog.recluster
  /\ roundLog.topology # <<>>
  /\ Len(roundLog.topology) < Len(history[Len(history) - 1].clusters)

\* C9 as stated: cluster() of kmeans and of LEACH returns at most
\* min(numClusters, alive count) clusters
C9_ClusterCountClamped ==
  (RoundExecuted /\ algorithm \in Repeatable /\ roundLog.recluster) =>
    Len(roundLog.topology) <=
      Min2(config.numClusters, Cardinality(aliveIn(roundLog.formed)))

\* C9 amended: kmeans returns at most min(numClusters, alive count)
\* clusters, LEACH at most min(max(numClusters, 1), alive count)
C9_ClusterCountClampedOrEmergency ==
  (RoundExecuted /\ algorithm \in Repeatable /\ roundLog.recluster) =>
    Len(roundLog.topology) <=
      Min2(IF algorithm = "leach" THEN Max2(config.numClusters, 1)
           ELSE config.numClusters,
           Cardinality(aliveIn(roundLog.formed)))

\* more clusters requested than sensors are alive: one cluster per sensor
C9_Witness ==
  /\ RoundExecuted /\ algorithm \in Repeatable /\ roundLog.recluster
  /\ config.numClusters > Cardinality(aliveIn(roundLog.formed))
  /\ Len(roundLog.topology) = Cardinality(aliveIn(roundLog.formed))

\* the round counter and the recorded frames stay within the budget, and a
\* run that returned before the budget found no sensor alive
C10_Bounded ==
  /\ round <= maxRounds
  /\ Len(history) <= maxRounds
  /\ Len(history) = round
  /\ (pc = "finished" /\ round < maxRounds) => aliveIn(algorithmSensors) = {}

\* every step of a run either returns or is one pass of the loop that adds
\* one to the round counter and records one frame
C10_Progress ==
  pc = "running" =>
    \/ pc' = "finished" /\ round' = round /\ history' = history
    \/ /\ pc' = "running"
       /\ aliveIn(algorithmSensors) # {}
       /\ round' = round + 1
       /\ Len(history') = Len(history) + 1

\* C10: every run terminates; it executes at most maxRounds rounds, records
\* at most maxRounds frames and stops before the budget only at a round
\* whose start finds no sensor alive
C10_RunTerminatesWithinBudget ==
  /\ []C10_Bounded
  /\ [][C10_Progress]_vars

\* a run that used up the whole budget with a sensor still alive
C10_Witness ==
  /\ pc = "finished"
  /\ round = maxRounds
  /\ Len(history) = maxRounds
  /\ aliveIn(algorithmSensors) # {}

\* C11: when every sensor starts with energy 0, a strategy run executes no
\* round: it records no RoundFrame and no error entry, its result reports
\* lifetime 0, and cluster() of kmeans and of LEACH on the working copy
\* returns the empty cluster list
C11_ZeroEnergyZeroLifetime ==
  (config.initialEnergy = 0 /\ pc \in {"running", "finished"}) =>
    /\ round = 0 /\ history = <<>> /\ estimationErrors = <<>>
    /\ kmeansCluster(algorithmSensors, SortedIds(DOMAIN algorithmSensors), config) = <<>>
    /\ leachCluster(algorithmSensors, config, round, leachNodes,
                    leachRoundsPerCycle).clusters = <<>>
    /\ pc = "finished" =>
          /\ networkLifetime = 0
          /\ results[algorithm] = NoResult

\* a LEACH run on a zero-energy layout that has returned
C11_Witness ==
  /\ config.initialEnergy = 0
  /\ config.numSensors > 1
  /\ pc = "finished"
  /\ algorithm = "leach"
  /\ networkEnded
  /\ \A i \in DOMAIN algorithmSensors : algorithmSensors[i].energy = 0

\* a kmeans or LEACH run on one sensor with positive initial energy and a
\* configured cluster count of 5 has returned
SingleSensorRun ==
  /\ pc = "finished"
  /\ algorithm \in Repeatable
  /\ config.numSensors = 1
  /\ config.numClusters = DefaultClusters
  /\ config.initialEnergy > 0

\* every recorded frame is one cluster whose head and only member is the sensor
SingleClusterFrames ==
  \A n \in 1..Len(history) :
     /\ Len(history[n].clusters) = 1
     /\ history[n].clusters[1].headId = 0
     /\ Len(history[n].clusters[1].members) = 1
     /\ history[n].clusters[1].members[1].id = 0

\* the indices of the rounds whose frame records the sensor at energy 0
clampRounds ==
  {n - 1 : n \in {m \in 1..Len(history) :
                    history[m].clusters[1].members[1].energy = 0}}

firstClampRound == CHOOSE r \in clampRounds : \A q \in clampRounds : r <= q

\* C12 as stated: with one sensor and cluster count 5, every frame of a
\* kmeans or LEACH run is the single cluster headed by the sensor, and the
\* reported lifetime is the index of the round in which the sensor's energy
\* first clamps to 0
C12_LifetimeIsClampRound ==
  SingleSensorRun =>
    /\ SingleClusterFrames
    /\ clampRounds # {}
    /\ results[algorithm].networkLifetime = firstClampRound

\* C12 amended: with one sensor and cluster count 5, every frame of a kmeans
\* or LEACH run is the single cluster headed by the sensor, and the reported
\* lifetime is one more than the index of the round in which the sensor's
\* energy first clamps to 0 (the first round that starts with no sensor
\* alive), or maxRounds when the energy never clamped within the budget
C12_LifetimeIsRoundAfterClamp ==
  SingleSensorRun =>
    /\ SingleClusterFrames
    /\ results[algorithm].networkLifetime =
          IF clampRounds = {} THEN maxRounds ELSE firstClampRound + 1

\* a single-sensor LEACH run whose sensor was clamped to 0 in a round after round 0
C12_Witness ==
  /\ SingleSensorRun
  /\ algorithm = "leach"
  /\ clampRounds # {}
  /\ firstClampRound > 0
  /\ firstClampRound + 1 < maxRounds

\* non-positive field dimensions or a reclustering interval of zero
invalidConfig(cfg) ==
  cfg.width <= 0 \/ cfg.height <= 0 \/ cfg.clusteringInterval = 0

\* C13: an engine whose configuration is invalid, whether it was given to
\* the constructor or set by updateConfig, never executes a simulation
\* round: no run under it records a RoundFrame or returns a result with one
C13_InvalidConfigNeverRuns ==
  invalidConfig(config) =>
    /\ round = 0
    /\ history = <<>>
    /\ \A a \in Range(Algorithms) : results[a].history = <<>>

\* C14: on every layout of pairwise distinct positions with k >= 2, the loop
\* of cluster() exits with converged = true, i.e. no centroid moved by more
\* than the convergence threshold between its last two iterations, and it
\* exits after fewer than maxIterations (100) iterations
C14_LloydConvergesBeforeCap ==
  (call.fn = "kmeans.cluster" /\ call.returned) =>
    /\ call.converged
    /\ call.iteration < maxIterations
    /\ call.iteration <= maxIterations

\* a call that needed more than two iterations and returned two clusters
\* or more
C14_Witness ==
  /\ call.fn = "kmeans.cluster"
  /\ call.returned
  /\ call.converged
  /\ call.iteration > 2
  /\ Len(call.clusters) >= 2

\* C15: with clusteringInterval I >= 1, the last executed round r of a run
\* invoked the strategy exactly when r is a multiple of I, the last
\* reclustering round is the largest multiple of I up to r, and a round that
\* did not invoke the strategy worked on the topology carried forward from
\* the frame before it
C15_ReclusterEveryInterval ==
  (RoundExecuted /\ config.clusteringInterval >= 1) =>
    LET r == round - 1
        I == config.clusteringInterval
    IN /\ roundLog.recluster <=> (r % I = 0)
       /\ lastClusteringRound = (r \div I) * I
       /\ ~ roundLog.recluster =>
             /\ Len(history) >= 2
             /\ roundLog.topology =
                   carryForward(history[Len(history) - 1], roundLog.formed)

\* with interval 2, round 3 carried forward the topology that round 2 formed
C15_Witness ==
  /\ RoundExecuted
  /\ config.clusteringInterval = 2
  /\ round = 4
  /\ lastClusteringRound = 2
  /\ ~ roundLog.recluster
  /\ roundLog.topology # <<>>

\* the ids of a list of member snapshots
snapshotIds(ms) == [ k \in 1..Len(ms) |-> ms[k].id ]

\* the list ids without the sensors whose energy in S is 0
withoutDead(ids, S) == SelectSeq(ids, LAMBDA i : S[i].energy > 0)

\* C16: on a round that did not invoke the strategy, the working topology
\* is the previous frame's cluster list without the clusters whose head has
\* energy 0 at the start of the round, in the same order; each remaining
\* cluster keeps its id and head, and its members and sleeping members are
\* the previous frame's without those whose energy is 0
C16_CarryForwardOnlyPrunes ==
  (RoundExecuted /\ ~ roundLog.recluster /\ Len(history) >= 2) =>
    LET prev == history[Len(history) - 1].clusters
        now == roundLog.formed
        kept == SelectSeq(prev, LAMBDA c : now[c.headId].energy > 0)
        topology == roundLog.topology
    IN /\ Len(topology) = Len(kept)
       /\ \A n \in 1..Len(topology) :
             /\ topology[n].id = kept[n].id
             /\ topology[n].headId = kept[n].headId
             /\ topology[n].members = withoutDead(snapshotIds(kept[n].members), now)
             /\ topology[n].sleepingMembers =
                   withoutDead(snapshotIds(kept[n].sleepingMembers), now)
             /\ now[topology[n].headId].energy > 0
             /\ \A m \in Range(topology[n].members) \cup
                          Range(topology[n].sleepingMembers) : now[m].energy > 0

\* a carry-forward round that dropped a cluster whose head had died and
\* pruned a dead member from a cluster it kept
C16_Witness ==
  /\ RoundExecuted
  /\ ~ roundLog.recluster
  /\ Len(history) >= 2
  /\ LET prev == history[Len(history) - 1].clusters
         now == roundLog.formed
     IN /\ \E n \in 1..Len(prev) : now[prev[n].headId].energy = 0
        /\ \E n \in 1..Len(prev) :
              /\ now[prev[n].headId].energy > 0
              /\ \E k \in 1..Len(prev[n].members) :
                    now[prev[n].members[k].id].energy = 0

\* every sensor of S is where the layout generator put it, with the
\* configured initial energy and awake
pristine(S) ==
  \E l \in LayoutIds, cfg \in Configs :
    /\ cfg.initialEnergy = config.initialEnergy
    /\ cfg.numSensors = config.numSensors
    /\ S = generateSensors(cfg, l)

\* C17: each strategy run starts from a copy of the layout in which every
\* sensor has the configured initial energy and is awake, and once a layout
\* has been generated the engine's layout and the layout that runSimulation
\* returns keep every sensor at its initial position, initial energy and
\* isAsleep = false, whatever the strategy runs do to their copies
C17_StrategiesShareNoSensorState ==
  /\ (pc = "running" /\ round = 0) =>
        /\ algorithmSensors = sensors
        /\ \A i \in DOMAIN algorithmSensors :
              /\ algorithmSensors[i].energy = config.initialEnergy
              /\ ~ algorithmSensors[i].isAsleep
  /\ sensors # <<>> =>
        /\ pristine(sensors)
        /\ arrayOf(originalSensors) = sensors

\* runSimulation has returned after all three strategies executed rounds,
\* one of them until every sensor of its copy was drained
C17_Witness ==
  /\ pc = "done"
  /\ config.initialEnergy > 0
  /\ \A n \in 1..Len(Algorithms) :
        /\ results[Algorithms[n]].history # <<>>
        /\ results[Algorithms[n]].totalRounds >= 2
  /\ \E n \in 1..Len(Algorithms) :
        Len(results[Algorithms[n]].history) < MaxRounds
  /\ pristine(arrayOf(originalSensors))

\* s is an initial segment of t
isPrefixOf(s, t) == Len(s) <= Len(t) /\ \A n \in 1..Len(s) : t[n] = s[n]

\* the step in which calculateExtendedErrors runs
ExtensionStep == pc = "finished" /\ pc' = "done"

\* C18: the error-extension pass only appends: for every strategy it leaves
\* the RoundFrame history, the lifetime, the total rounds executed and every
\* error-series entry already present unchanged, and only adds entries at
\* the end of the error series
C18_ExtensionOnlyAppends ==
  [][ ExtensionStep =>
        \A a \in Range(Algorithms) :
          /\ results'[a].history = results[a].history
          /\ results'[a].networkLifetime = results[a].networkLifetime
          /\ results'[a].totalRounds = results[a].totalRounds
          /\ isPrefixOf(results[a].estimationErrors, results'[a].estimationErrors) ]_vars

\* the rounds (1-based frame indices) at whose end sensor i was alive and
\* awake
activeRounds(i) == {n \in 1..Len(activeTrace) : i \in activeTrace[n]}

maxOf(ns) == CHOOSE n \in ns : \A m \in ns : m <= n

\* a round writes the entry of sensor i only if i is alive and awake after
\* the round's energy application
C19_WriteOnlyActive ==
  RoundStep =>
    \A i \in DOMAIN lastKnown :
      lastKnown'[i] # lastKnown[i] =>
        algorithmSensors'[i].energy > 0 /\ ~ algorithmSensors'[i].isAsleep

\* the entry of sensor i is the reading of the latest round at whose end i
\* was alive and awake, and is absent if there was no such round
C19_EntryIsLatestActiveReading ==
  pc \in {"running", "finished"} =>
    /\ Len(activeTrace) = Len(history)
    /\ \A i \in DOMAIN lastKnown :
          IF activeRounds(i) = {}
          THEN ~ lastKnown[i].has
          ELSE /\ lastKnown[i].has
               /\ lastKnown[i].data =
                    history[maxOf(activeRounds(i))].sensorsData[i]

\* C19: during a strategy run the last-known-reading entry of a sensor is
\* written in round r only if the sensor is alive and not asleep after round
\* r's energy application; so after any round the entry of sensor s holds
\* the reading of the latest round at whose end s was alive and awake, and
\* s has no entry if there was no such round
C19_CacheFollowsActiveSensors ==
  /\ []C19_EntryIsLatestActiveReading
  /\ [][C19_WriteOnlyActive]_vars

\* after three rounds one sensor's entry is older than the last round
\* because it slept or died, another sensor never got an entry, and a third
\* holds the last round's reading, which differs from its earlier one
C19_Witness ==
  /\ pc \in {"running", "finished"}
  /\ Len(history) >= 3
  /\ \E i \in DOMAIN lastKnown :
        /\ activeRounds(i) # {}
        /\ maxOf(activeRounds(i)) < Len(history)
        /\ lastKnown[i].data # history[Len(history)].sensorsData[i]
  /\ \E i \in DOMAIN lastKnown : ~ lastKnown[i].has
  /\ \E i \in DOMAIN lastKnown :
        /\ Len(history) \in activeRounds(i)
        /\ lastKnown[i].data # history[Len(history) - 1].sensorsData[i]

\* the other sensors of the layout that have a cached reading, nearest to
\* the target first
cachedByDistance(target, cache, allSensors) ==
  LET ids == {i \in DOMAIN allSensors : i # target.id /\ cache[i].has}
      before(i, j) ==
        \/ distance2(allSensors[i], target) < distance2(allSensors[j], target)
        \/ /\ distance2(allSensors[i], target) = distance2(allSensors[j], target)
           /\ i < j
  IN [ n \in 1..Cardinality(ids) |->
         CHOOSE i \in ids : Cardinality({j \in ids : before(j, i)}) + 1 = n ]

\* C20: the reconstruction of a missing sensor uses the k = 6 sensors
\* nearest to it among the sensors of the layout that have a cached reading,
\* and queries the environment only when no other sensor of the layout has
\* a cached reading
C20_UsesNearestCachedSensors ==
  (call.fn = "estimate" /\ call.returned) =>
    LET cached == cachedByDistance(call.sensors[call.target], call.lastKnown,
                                   call.sensors)
    IN /\ call.environment <=> cached = <<>>
       /\ Range(call.used) = Range(SubSeq(cached, 1, Min2(EST_K, Len(cached))))

\* the working copy at the moment the n-th cluster of the last executed
\* round is processed by calculateEnergyConsumption
beforeCluster(n) ==
  calculateEnergyConsumption(SubSeq(roundLog.topology, 1, n - 1), roundLog.formed,
                             algorithm, config, noIdle).sensors

\* the non-head members of cluster c
nonHeadMembers(c) == {m \in Range(c.members) : m # c.headId}

\* the non-head members of cluster c that are alive and awake in S
activeMembers(c, S) ==
  {m \in nonHeadMembers(c) : S[m].energy > 0 /\ ~ S[m].isAsleep}

meanDist2(s, ms, S) ==
  Sq(s.x * Len(ms) - SumSeq([n \in 1..Len(ms) |-> S[ms[n]].x]))
    + Sq(s.y * Len(ms) - SumSeq([n \in 1..Len(ms) |-> S[ms[n]].y]))

\* the head of cluster c is one of its members nearest to their mean
headNearestToMean(c, S) ==
  /\ c.headId \in Range(c.members)
  /\ \A m \in Range(c.members) :
        meanDist2(S[c.headId], c.members, S) <= meanDist2(S[m], c.members, S)

\* C22: in every cluster returned by the centroid-based strategy, for every
\* k = min(numClusters, alive count) including k = 1 with several alive
\* sensors, the head is a member whose distance to the mean position of the
\* cluster's members is minimal among the members
C22_HeadNearestToCentroid ==
  (RoundExecuted /\ algorithm = "kmeans" /\ roundLog.recluster) =>
    \A n \in 1..Len(roundLog.topology) :
      headNearestToMean(roundLog.topology[n], roundLog.formed)

\* a reading (in hundredths) lies in the configured ranges (in thousandths)
inRange(data, cfg) ==
  /\ cfg.minSalinity <= data.salinity * 10 /\ data.salinity * 10 <= cfg.maxSalinity
  /\ cfg.minPressure <= data.pressure * 10 /\ data.pressure * 10 <= cfg.maxPressure
  /\ cfg.minTemperature <= data.temperature * 10
  /\ data.temperature * 10 <= cfg.maxTemperature
  /\ cfg.minPH <= data.ph * 10 /\ data.ph * 10 <= cfg.maxPH

\* C23: every reading recorded in every RoundFrame, for every sensor, dead
\* or alive, and every round, has each of its four variables inside the
\* configured [min, max] range of that variable, whatever the position,
\* round and noise contribution
C23_ReadingsInRange ==
  (call.fn = "getSensorData" /\ call.returned) => inRange(call.data, config)

\* the heads of the clusters of the last executed round
headsOf(topology) == {topology[n].headId : n \in 1..Len(topology)}

\* C24: whenever at least one sensor is alive and numClusters >= 1, the
\* rotating-head strategy's cluster() returns exactly min(numClusters, alive
\* count) clusters with pairwise distinct heads, so the round has at least
\* one head; the heads the eligibility ranking does not supply are supplied
\* by the top-energy fallback
C24_LeachReturnsDesiredHeads ==
  ( /\ RoundExecuted /\ algorithm = "leach" /\ roundLog.recluster
    /\ config.numClusters >= 1 /\ aliveIn(roundLog.formed) # {} ) =>
    LET last == headLog[Len(headLog)]
    IN /\ Len(roundLog.topology) =
            Min2(config.numClusters, Cardinality(aliveIn(roundLog.formed)))
       /\ Cardinality(headsOf(roundLog.topology)) = Len(roundLog.topology)
       /\ Len(roundLog.topology) >= 1
       /\ headsOf(roundLog.topology) \subseteq aliveIn(roundLog.formed)
       /\ headsOf(roundLog.topology) = last.ranked \cup last.forced
       /\ last.ranked \cap last.forced = {}
       /\ last.emergency = {}

\* a LEACH round with two clusters in which the ranking supplied one head
\* and the fallback the other, and one in which the fallback supplied all
C24_Witness ==
  /\ RoundExecuted /\ algorithm = "leach" /\ roundLog.recluster
  /\ Len(roundLog.topology) >= 2
  /\ headLog[Len(headLog)].forced # {}
  /\ headLog[Len(headLog)].ranked # {}
  /\ \E n \in 1..Len(headLog) :
        headLog[n].ranked = {} /\ headLog[n].forced # {}

\* the number of clusters of a topology that list sensor i as a member
RECURSIVE memberCount(_, _)
memberCount(topology, i) ==
  IF topology = <<>> THEN 0
  ELSE (IF i \in Range(Head(topology).members) THEN 1 ELSE 0)
       + memberCount(Tail(topology), i)

\* the clusters partition the alive sensors of S
partitionsAlive(topology, S) ==
  /\ \A i \in aliveIn(S) : memberCount(topology, i) = 1
  /\ \A i \in DOMAIN S \ aliveIn(S) : memberCount(topology, i) = 0
  /\ \A n \in 1..Len(topology) : topology[n].members # <<>>

\* C25: on every reclustering round of the centroid-based and rotating-head
\* strategies the returned clusters partition the alive sensors: every
\* sensor with energy > 0 is a member of exactly one cluster, no sensor with
\* energy 0 is a member of any cluster, and no returned cluster is empty
C25_ClustersPartitionAlive ==
  (RoundExecuted /\ algorithm \in Repeatable /\ roundLog.recluster) =>
    partitionsAlive(roundLog.topology, roundLog.formed)

\* C25 amended: the same for a configured cluster count of at least 1
C25_ClustersPartitionAliveForK ==
  ( /\ RoundExecuted /\ algorithm \in Repeatable /\ roundLog.recluster
    /\ config.numClusters >= 1 ) =>
    partitionsAlive(roundLog.topology, roundLog.formed)

\* a reclustering round with at least two clusters formed while one sensor
\* is dead and the others are alive
C25_Witness ==
  /\ RoundExecuted /\ algorithm \in Repeatable /\ roundLog.recluster
  /\ config.numClusters >= 1
  /\ Len(roundLog.topology) >= 2
  /\ aliveIn(roundLog.formed) # DOMAIN roundLog.formed
  /\ Cardinality(aliveIn(roundLog.formed)) >= 3

\* the result the running strategy would return now, next to the results of
\* the strategies that have returned
resultsNow ==
  [results EXCEPT ![algorithm] = resultOf(lifetimeAtExit(networkLifetime, round))]

\* C26: for every strategy and every round r present in its history, the
\* alive count returned by getStatsForRound(result, strategy, r) equals the
\* number of sensors of that strategy's working copy that had energy > 0 at
\* the end of round r, also for reclustering intervals greater than 1 where
\* a cluster whose head died is dropped on carry-forward while its members
\* are still alive
C26_StatsAliveCountIsWorkingCopyAlive ==
  RoundExecuted =>
    getStatsForRound(resultsNow, algorithm, round - 1, config).aliveSensors
      = Cardinality(aliveIn(algorithmSensors))

\* C27: for every round r present in a strategy's history (interval I >= 1),
\* the lastClusteringRound reported by getStatsForRound, floor(r / I) * I,
\* equals the round at which the run loop actually last recomputed the
\* topology used in round r (the loop's lastClusteringRound marker at the
\* end of round r)
C27_StatsLastClusteringRoundIsMarker ==
  (RoundExecuted /\ config.clusteringInterval >= 1) =>
    getStatsForRound(resultsNow, algorithm, round - 1, config).lastClusteringRound
      = lastClusteringRound

\* the statistics of a round that carried forward a topology computed in an
\* earlier round that was not round 0
C27_Witness ==
  /\ RoundExecuted /\ config.clusteringInterval = 2
  /\ ~ roundLog.recluster
  /\ lastClusteringRound >= 2
  /\ getStatsForRound(resultsNow, algorithm, round - 1, config).lastClusteringRound
       = round - 2

\* the strategies whose error series the extension pass extended
extended == {a \in Range(Algorithms) :
               Len(results[a].estimationErrors) > Len(results[a].history)}

\* C28: the last-known-reading cache that the error-extension pass rebuilds
\* from a strategy's recorded history is identical, sensor by sensor, to the
\* cache the strategy's run held after its final round
C28_RebuiltCacheIsFinalCache ==
  pc = "done" =>
    \A a \in extended :
      LET errors == results[a].estimationErrors
          final == Len(results[a].history)
      IN final >= 1 =>
           \A n \in (final + 1)..Len(errors) :
             errors[n].lastKnown = errors[final].lastKnown

\* C29: any strategy whose error series is extended by the extension pass
\* ended its run because all of its sensors were dead, never because the
\* round budget was exhausted; hence treating every sensor as missing in the
\* extended rounds matches that strategy's final sensor state
C29_ExtendedStrategiesDiedOut ==
  /\ pc = "finished" =>
       /\ results[algorithm].history = history /\ Len(history) = round
       /\ round <= maxRounds
       /\ round < maxRounds =>
            /\ networkEnded
            /\ \A i \in DOMAIN algorithmSensors : algorithmSensors[i].energy = 0
            /\ round >= 1 =>
                 estimationErrors[round].missing = DOMAIN algorithmSensors
  /\ pc = "done" =>
       \A a \in extended :
         LET errors == results[a].estimationErrors
             final == Len(results[a].history)
         IN /\ final < maxRounds
            /\ \A n \in (final + 1)..Len(errors) : errors[n].missing = DOMAIN sensors
            /\ final >= 1 => errors[final].missing = DOMAIN sensors

\* a simulation in which one strategy died out after at least one round and
\* was extended, while another one used up the round budget
C29_Witness ==
  /\ pc = "done"
  /\ \E a \in extended : Len(results[a].history) >= 1
  /\ \E b \in Range(Algorithms) : Len(results[b].history) = maxRounds

\* the hook holds a delivered result and its effects have been flushed
Settled ==
  /\ call.fn = "useSimulation" /\ call.hasResult
  /\ pc = "done" /\ call.delivered = simCount
  /\ ~ call.effectDue

\* C30: playback is read-only indexing into the computed history: after any
\* sequence of start, pause, round-seek, strategy-switch and timer-tick
\* events with a simulation result present, the round loop has been entered
\* only by start, and once the clamping effect has run the playback
\* position satisfies 0 <= currentRound <= history.length - 1 of the
\* selected strategy, so the statistics query is never called with a
\* negative round, including when the selected strategy recorded zero
\* frames
C30_PlaybackIndexesHistory ==
  call.fn = "useSimulation" =>
    /\ simCount <= call.starts
    /\ Settled => /\ 0 <= call.currentRound
                  /\ call.currentRound <= lastFrame(call)
    /\ call.stats.called => /\ call.stats.value.round >= 0
                            /\ ~ call.stats.value.threw

====
